---- MODULE Spec2Model ----
(***************************************************************************)
(* Model of the appcat-runtime composition function: the path accessor,    *)
(* the deep cloner and the config merger of merge.go, the secret           *)
(* lifecycle, the template substitutor and the resource synthesizer of     *)
(* resources.go, and Manager.RunFunction of manager.go.                    *)
(*                                                                         *)
(* Go maps and slices are reference types, so the nested untyped trees     *)
(* (map[string]interface{} / []interface{}) live in an explicit heap: an   *)
(* address is an index into the sequence heap, and a tree value is either  *)
(* a scalar or a reference to a heap object.  Immutable wire values        *)
(* (structpb.Struct, JSON) are nested values without references.           *)
(***************************************************************************)
EXTENDS Integers, Sequences, FiniteSets, TLC

VARIABLES
    heap,   \* the Go heap: sequence of map / slice objects, address = index
    pc,     \* which operation ran last
    tree,   \* PathAccessor / DeepCloner: address of the tree m
    copy,   \* DeepCloner: address of deepCopy(m), 0 before the copy
    call,   \* inputs and results of the last operation
    steps,  \* number of operations applied so far
    serviceConfig,  \* ConfigMerger: address of the service configuration map
    userSpec,       \* ConfigMerger: address of the user specification map
    composite,  \* request: the observed composite resource (wire value)
    input,      \* request: the composition input (wire value)
    observed    \* request: observed resources, role -> descriptor (wire value)

treeVars == <<tree, copy>>
mergeVars == <<serviceConfig, userSpec>>
reqVars == <<composite, input, observed>>
vars == <<heap, pc, call, steps, treeVars, mergeVars, reqVars>>

\* a nil pointer (no composite, no input, no observed resource)
Nil == [kind |-> "nil", val |-> 0]
NoRequest == composite = Nil /\ input = Nil /\ observed = <<>>

(***************************************************************************)
(* Values.  Every value is a record [kind, val]; kind is compared first.   *)
(***************************************************************************)
Null == [kind |-> "null", val |-> 0]
Bool(b) == [kind |-> "bool", val |-> b]
Num(n) == [kind |-> "num", val |-> n]
Str(s) == [kind |-> "str", val |-> s]
Ref(a) == [kind |-> "ref", val |-> a]
JMap(f) == [kind |-> "map", val |-> f]
JSeq(s) == [kind |-> "seq", val |-> s]
EmptyMap == <<>>

\* Go evaluates an expression once, when its statement runs: F gets the
\* value of v
Once(v, F(_)) == CHOOSE y \in {F(x) : x \in {v}} : TRUE

\* v.(map[string]interface{}) succeeds
IsMap(h, v) == v.kind = "ref" /\ h[v.val].kind = "map"
\* v.([]interface{}) succeeds
IsSlice(h, v) == v.kind = "ref" /\ h[v.val].kind = "seq"
\* v.(string) succeeds
IsString(v) == v.kind = "str"

\* m[k] = v on the map object at address a
MapPut(h, a, k, v) ==
    [h EXCEPT ![a] = [kind |-> "map",
                      val |-> [x \in (DOMAIN h[a].val) \cup {k} |->
                                 IF x = k THEN v ELSE h[a].val[x]]]]

\* s[i] = v on the slice object at address a
SlicePut(h, a, i, v) == [h EXCEPT ![a] = [kind |-> "seq", val |-> [h[a].val EXCEPT ![i] = v]]]

\* make(map[string]interface{})
NewMap(h) == [heap |-> Append(h, JMap(EmptyMap)), addr |-> Len(h) + 1]

(***************************************************************************)
(* structpb.Struct.AsMap: builds fresh Go maps and slices from a wire      *)
(* value.  Snapshot is the way back (structpb.NewStruct, json.Marshal).    *)
(***************************************************************************)
RECURSIVE Alloc(_, _), AllocKeys(_, _, _, _), AllocElems(_, _, _, _)
Alloc(h, j) ==
    IF j.kind = "map"
    THEN AllocKeys(Append(h, JMap(EmptyMap)), j.val, Len(h) + 1, DOMAIN j.val)
    ELSE IF j.kind = "seq"
    THEN AllocElems(Append(h, JSeq(<<>>)), j.val, Len(h) + 1, 1)
    ELSE [heap |-> h, val |-> j]

AllocKeys(h, f, a, keys) ==
    IF keys = {} THEN [heap |-> h, val |-> Ref(a)]
    ELSE Once(CHOOSE x \in keys : TRUE, LAMBDA k :
         Once(Alloc(h, f[k]), LAMBDA r :
         Once([heap |-> MapPut(r.heap, a, k, r.val), keys |-> keys \ {k}], LAMBDA n :
         AllocKeys(n.heap, f, a, n.keys))))

AllocElems(h, s, a, i) ==
    IF i > Len(s) THEN [heap |-> h, val |-> Ref(a)]
    ELSE Once(Alloc(h, s[i]), LAMBDA r :
         Once([r.heap EXCEPT ![a] = JSeq(Append(r.heap[a].val, r.val))], LAMBDA n :
         AllocElems(n, s, a, i + 1)))

\* a map or slice that contains itself (possible after aliasing) is cut at
\* the second visit
RECURSIVE SnapshotOn(_, _, _)
SnapshotOn(h, v, seen) ==
    IF v.kind # "ref" THEN v
    ELSE IF v.val \in seen THEN [kind |-> "cycle", val |-> v.val]
    ELSE IF h[v.val].kind = "map"
    THEN JMap([k \in DOMAIN h[v.val].val |-> SnapshotOn(h, h[v.val].val[k], seen \cup {v.val})])
    ELSE JSeq([i \in 1..Len(h[v.val].val) |-> SnapshotOn(h, h[v.val].val[i], seen \cup {v.val})])

Snapshot(h, v) == Once(h, LAMBDA now : SnapshotOn(now, v, {}))

\* the addresses of the maps and slices reachable from value v
RECURSIVE ReachFrom(_, _, _)
ReachFrom(h, todo, seen) ==
    IF todo = {} THEN seen
    ELSE LET a == CHOOSE x \in todo : TRUE
             next == {h[a].val[k].val : k \in {x \in DOMAIN h[a].val : h[a].val[x].kind = "ref"}}
         IN ReachFrom(h, (todo \cup next) \ (seen \cup {a}), seen \cup {a})

Reach(h, v) == IF v.kind # "ref" THEN {} ELSE ReachFrom(h, {v.val}, {})

(***************************************************************************)
(* strings.Split(path, ".")                                                *)
(***************************************************************************)
RECURSIVE SplitFrom(_, _)
SplitFrom(s, i) ==
    Once({k \in i..Len(s) : SubSeq(s, k, k) = "."}, LAMBDA dots :
    IF dots = {} THEN <<SubSeq(s, i, Len(s))>>
    ELSE Once(CHOOSE k \in dots : \A x \in dots : k <= x, LAMBDA first :
         <<SubSeq(s, i, first - 1)>> \o SplitFrom(s, first + 1)))

Split(s) == Once(s, LAMBDA str : SplitFrom(str, 1))

(***************************************************************************)
(* merge.go: getValueByPath, setValueByPath, deepCopy                      *)
(***************************************************************************)
\* error values, named after what the message reports
NoErr == ""
ErrNotFound == "key not found"
ErrExpectedMap == "expected map"

\* a walk that looks up a first segment "spec" like any other
RECURSIVE getWalkLiteral(_, _, _, _)
getWalkLiteral(h, parts, i, current) ==
    IF i > Len(parts) THEN [err |-> NoErr, val |-> current]
    ELSE IF ~IsMap(h, current) THEN [err |-> ErrExpectedMap, val |-> Null]
    ELSE IF parts[i] \notin DOMAIN h[current.val].val THEN [err |-> ErrNotFound, val |-> Null]
    ELSE getWalkLiteral(h, parts, i + 1, h[current.val].val[parts[i]])

RECURSIVE getWalk(_, _, _, _)
getWalk(h, parts, i, current) ==
    IF i > Len(parts) THEN [err |-> NoErr, val |-> current]
    ELSE IF i = 1 /\ parts[i] = "spec" THEN getWalk(h, parts, i + 1, current)
    ELSE IF ~IsMap(h, current) THEN [err |-> ErrExpectedMap, val |-> Null]
    ELSE IF parts[i] \notin DOMAIN h[current.val].val THEN [err |-> ErrNotFound, val |-> Null]
    ELSE getWalk(h, parts, i + 1, h[current.val].val[parts[i]])

\* a lookup that reports a missing key as a nil value instead of an error
getValueByPathNilOnMissing(h, data, path) ==
    Once(Split(path), LAMBDA parts :
    Once(getWalk(h, parts, 1, Ref(data)), LAMBDA g :
    IF g.err = ErrNotFound THEN [err |-> NoErr, val |-> Null] ELSE g))

getValueByPath(h, data, path) ==
    Once(Split(path), LAMBDA parts : getWalk(h, parts, 1, Ref(data)))

\* a walk that stores the failed conversion, a nil map, under the segment
\* before it reports the mismatch
RECURSIVE setWalkStoring(_, _, _, _, _)
setWalkStoring(h, parts, i, current, value) ==
    IF i >= Len(parts)
    THEN [heap |-> MapPut(h, current, parts[Len(parts)], value), err |-> NoErr]
    ELSE IF parts[i] \notin DOMAIN h[current].val
    THEN Once(NewMap(h), LAMBDA n :
         Once(MapPut(n.heap, current, parts[i], Ref(n.addr)), LAMBDA next :
         setWalkStoring(next, parts, i + 1, n.addr, value)))
    ELSE IF ~IsMap(h, h[current].val[parts[i]])
    THEN [heap |-> MapPut(h, current, parts[i], Null), err |-> ErrExpectedMap]
    ELSE setWalkStoring(h, parts, i + 1, h[current].val[parts[i]].val, value)

RECURSIVE setWalk(_, _, _, _, _)
setWalk(h, parts, i, current, value) ==
    IF i >= Len(parts)
    THEN [heap |-> MapPut(h, current, parts[Len(parts)], value), err |-> NoErr]
    ELSE IF parts[i] \notin DOMAIN h[current].val
    THEN Once(NewMap(h), LAMBDA n :
         Once(MapPut(n.heap, current, parts[i], Ref(n.addr)), LAMBDA next :
         setWalk(next, parts, i + 1, n.addr, value)))
    ELSE IF ~IsMap(h, h[current].val[parts[i]])
    THEN [heap |-> h, err |-> ErrExpectedMap]
    ELSE setWalk(h, parts, i + 1, h[current].val[parts[i]].val, value)

\* a walk that replaces a non-map intermediate value by a new map
RECURSIVE setWalkOverwrite(_, _, _, _, _)
setWalkOverwrite(h, parts, i, current, value) ==
    IF i >= Len(parts)
    THEN [heap |-> MapPut(h, current, parts[Len(parts)], value), err |-> NoErr]
    ELSE IF parts[i] \notin DOMAIN h[current].val \/ ~IsMap(h, h[current].val[parts[i]])
    THEN Once(NewMap(h), LAMBDA n :
         Once(MapPut(n.heap, current, parts[i], Ref(n.addr)), LAMBDA next :
         setWalkOverwrite(next, parts, i + 1, n.addr, value)))
    ELSE setWalkOverwrite(h, parts, i + 1, h[current].val[parts[i]].val, value)

setValueByPathOverwrite(h, data, path, value) ==
    Once(Split(path), LAMBDA parts : setWalkOverwrite(h, parts, 1, data, value))

setValueByPath(h, data, path, value) ==
    Once(Split(path), LAMBDA parts :
    IF Len(parts) = 0 THEN [heap |-> h, err |-> "empty path"]
    ELSE setWalk(h, parts, 1, data, value))

\* a copy of the top-level map only: nested maps and slices stay shared
deepCopyShallow(h, src) == [heap |-> Append(h, JMap(h[src].val)), addr |-> Len(h) + 1]

RECURSIVE deepCopy(_, _), deepCopyKeys(_, _, _, _), deepCopySlice(_, _), deepCopyElems(_, _, _, _)
deepCopy(h, src) ==
    Once(Append(h, JMap(EmptyMap)), LAMBDA n :
    deepCopyKeys(n, src, Len(n), DOMAIN n[src].val))

deepCopyKeys(h, src, dst, keys) ==
    IF keys = {} THEN [heap |-> h, addr |-> dst]
    ELSE Once(CHOOSE x \in keys : TRUE, LAMBDA k :
         Once(h[src].val[k], LAMBDA v :
         Once(IF IsMap(h, v) THEN deepCopy(h, v.val)
              ELSE IF IsSlice(h, v) THEN deepCopySlice(h, v.val)
              ELSE [heap |-> h, addr |-> 0], LAMBDA r :
         Once([heap |-> MapPut(r.heap, dst, k, IF r.addr = 0 THEN v ELSE Ref(r.addr)),
               keys |-> keys \ {k}], LAMBDA n :
         deepCopyKeys(n.heap, src, dst, n.keys)))))

deepCopySlice(h, src) ==
    Once(Append(h, JSeq([i \in 1..Len(h[src].val) |-> Null])), LAMBDA n :
    deepCopyElems(n, src, Len(n), 1))

deepCopyElems(h, src, dst, i) ==
    IF i > Len(h[src].val) THEN [heap |-> h, addr |-> dst]
    ELSE Once(h[src].val[i], LAMBDA v :
         Once(IF IsMap(h, v) THEN deepCopy(h, v.val)
              ELSE IF IsSlice(h, v) THEN deepCopySlice(h, v.val)
              ELSE [heap |-> h, addr |-> 0], LAMBDA r :
         Once(SlicePut(r.heap, dst, i, IF r.addr = 0 THEN v ELSE Ref(r.addr)), LAMBDA n :
         deepCopyElems(n, src, dst, i + 1))))

(***************************************************************************)
(* merge.go: mergeConfigs.  Go iterates the mapping table in an            *)
(* unspecified order; ord is the order of one run, a permutation of the    *)
(* table's keys.                                                           *)
(***************************************************************************)
ErrDefaultsNotMap == "defaultHelmValues is not a map"
ErrMappingNotMap == "mapping is not a map"
ErrSetHelmValue == "failed to set helm value: " \o ErrExpectedMap

\* m[k] of a map object, nil when the key is missing
MapGet(h, a, k) == IF k \in DOMAIN h[a].val THEN h[a].val[k] ELSE Null

\* the orders in which the keys S can be iterated
Perms(S) == {o \in [1..Cardinality(S) -> S] : \A x \in S : \E i \in DOMAIN o : o[i] = x}

\* a loop that stops at the first destination that is not a string
RECURSIVE applyMappingsBreaking(_, _, _, _, _, _)
applyMappingsBreaking(h, mapping, us, helmValues, ord, i) ==
    IF i > Len(ord) THEN [heap |-> h, err |-> NoErr]
    ELSE Once(ord[i], LAMBDA xrdPath :
         Once(h[mapping].val[xrdPath], LAMBDA helmPathRaw :
         IF ~IsString(helmPathRaw)
         THEN [heap |-> h, err |-> NoErr]
         ELSE Once(getValueByPath(h, us, xrdPath), LAMBDA g :
              IF g.err # NoErr
              THEN applyMappingsBreaking(h, mapping, us, helmValues, ord, i + 1)
              ELSE Once(setValueByPath(h, helmValues, helmPathRaw.val, g.val), LAMBDA s :
                   IF s.err # NoErr
                   THEN [heap |-> s.heap, err |-> ErrSetHelmValue]
                   ELSE applyMappingsBreaking(s.heap, mapping, us, helmValues, ord, i + 1)))))

RECURSIVE applyMappings(_, _, _, _, _, _)
applyMappings(h, mapping, us, helmValues, ord, i) ==
    IF i > Len(ord) THEN [heap |-> h, err |-> NoErr]
    ELSE Once(ord[i], LAMBDA xrdPath :
         Once(h[mapping].val[xrdPath], LAMBDA helmPathRaw :
         IF ~IsString(helmPathRaw)
         THEN applyMappings(h, mapping, us, helmValues, ord, i + 1)
         ELSE Once(getValueByPath(h, us, xrdPath), LAMBDA g :
              IF g.err # NoErr
              THEN applyMappings(h, mapping, us, helmValues, ord, i + 1)
              ELSE Once(setValueByPath(h, helmValues, helmPathRaw.val, g.val), LAMBDA s :
                   IF s.err # NoErr
                   THEN [heap |-> s.heap, err |-> ErrSetHelmValue]
                   ELSE applyMappings(s.heap, mapping, us, helmValues, ord, i + 1)))))

\* the result map: chart, helmValues and, when present, connectionSecret
mergeResult(h, sc, helmValues) ==
    Once(NewMap(h), LAMBDA n :
    Once(MapPut(n.heap, n.addr, "chart", MapGet(h, sc, "chart")), LAMBDA h1 :
    Once(MapPut(h1, n.addr, "helmValues", Ref(helmValues)), LAMBDA h2 :
    [heap |-> IF "connectionSecret" \in DOMAIN h[sc].val
              THEN MapPut(h2, n.addr, "connectionSecret", h[sc].val["connectionSecret"])
              ELSE h2,
     err |-> NoErr, result |-> n.addr])))

\* the iteration orders mergeConfigs can take on this service config
MergeOrders(h, sc) ==
    IF IsMap(h, MapGet(h, sc, "mapping"))
    THEN Perms(DOMAIN h[MapGet(h, sc, "mapping").val].val)
    ELSE {<<>>}

\* returns the new heap, the error and the address of the merged config
\* (0 is the nil map)
mergeConfigs(h, sc, us, ord) ==
    LET defaultHelmValues == MapGet(h, sc, "defaultHelmValues")
        mapping == MapGet(h, sc, "mapping")
    IN IF ~IsMap(h, defaultHelmValues)
       THEN [heap |-> h, err |-> ErrDefaultsNotMap, result |-> 0]
       ELSE Once(deepCopy(h, defaultHelmValues.val), LAMBDA c :
            IF ~IsMap(c.heap, mapping)
            THEN [heap |-> c.heap, err |-> ErrMappingNotMap, result |-> 0]
            ELSE Once(applyMappings(c.heap, mapping.val, us, c.addr, ord, 1), LAMBDA a :
                 IF a.err # NoErr
                 THEN [heap |-> a.heap, err |-> a.err, result |-> 0]
                 ELSE mergeResult(a.heap, sc, c.addr)))

(***************************************************************************)
(* resources.go: substituteVariables.  Go iterates the variable map in an  *)
(* unspecified order; ord is the order of one call.                        *)
(***************************************************************************)
\* strings.ReplaceAll(s, old, new) for a non-empty old
\* the occurrences of old are found left to right and do not overlap
RECURSIVE ReplaceAllFrom(_, _, _, _)
ReplaceAllFrom(s, old, new, i) ==
    Once({k \in i..(Len(s) - Len(old) + 1) : SubSeq(s, k, k + Len(old) - 1) = old}, LAMBDA hits :
    IF hits = {} THEN SubSeq(s, i, Len(s))
    ELSE Once(CHOOSE k \in hits : \A x \in hits : k <= x, LAMBDA first :
         SubSeq(s, i, first - 1) \o new \o ReplaceAllFrom(s, old, new, first + Len(old))))

ReplaceAll(s, old, new) ==
    Once(<<s, old, new>>, LAMBDA a : ReplaceAllFrom(a[1], a[2], a[3], 1))

\* fmt.Sprintf("${%s}", key)
Placeholder(key) == "${" \o key \o "}"

RECURSIVE substituteFrom(_, _, _, _)
substituteFrom(result, variables, ord, i) ==
    IF i > Len(ord) THEN result
    ELSE Once(ReplaceAll(result, Placeholder(ord[i]), variables[ord[i]]), LAMBDA replaced :
         substituteFrom(replaced, variables, ord, i + 1))

substituteVariables(template, variables, ord) == substituteFrom(template, variables, ord, 1)

\* the variable map generateResources builds
VariableNames == {"instanceName", "namespace", "password"}

(***************************************************************************)
(* encoding/base64: StdEncoding (Secret data on the wire) and URLEncoding  *)
(* (generated passwords).  Bytes are numbers 0..255.                       *)
(***************************************************************************)
AsciiLow == " !\"#$%&'()*+,-./0123456789:;<=>?@ABCDEFGHIJKLMNOPQRSTUVWXYZ[\\]^_"
AsciiHigh == "abcdefghijklmnopqrstuvwxyz{|}~"
encodeStd == "ABCDEFGHIJKLMNOPQRSTUVWXYZabcdefghijklmnopqrstuvwxyz0123456789+/"
encodeURL == "ABCDEFGHIJKLMNOPQRSTUVWXYZabcdefghijklmnopqrstuvwxyz0123456789-_"

\* position of character c in string t, 0 when absent
IndexOf(c, t) ==
    IF \E i \in 1..Len(t) : SubSeq(t, i, i) = c
    THEN CHOOSE i \in 1..Len(t) : SubSeq(t, i, i) = c
    ELSE 0

\* Go strings are byte strings.  The strings of the model are written over
\* the characters below, one byte each: printable ASCII without the
\* backtick, and tab, line feed, form feed and carriage return.  A byte or
\* a character outside this table has no counterpart in the model: Ord and
\* Chr are not defined on it, and no specification draws such an input.
AsciiCodes ==
    [c \in {SubSeq(AsciiLow, i, i) : i \in 1..Len(AsciiLow)}
            \cup {SubSeq(AsciiHigh, i, i) : i \in 1..Len(AsciiHigh)}
            \cup {"\t", "\n", "\f", "\r"} |->
        IF IndexOf(c, AsciiLow) # 0 THEN 31 + IndexOf(c, AsciiLow)
        ELSE IF IndexOf(c, AsciiHigh) # 0 THEN 96 + IndexOf(c, AsciiHigh)
        ELSE IF c = "\t" THEN 9
        ELSE IF c = "\n" THEN 10
        ELSE IF c = "\f" THEN 12
        ELSE 13]

\* []byte(s) keeps the byte of each character
Ord(c) == AsciiCodes[c]

\* string(b) keeps each byte
Chr(n) == CHOOSE c \in DOMAIN AsciiCodes : AsciiCodes[c] = n

Bytes(s) == Once(s, LAMBDA str : [i \in 1..Len(str) |-> Ord(SubSeq(str, i, i))])

RECURSIVE StringFrom(_, _, _)
StringFrom(b, lo, hi) ==
    IF lo > hi THEN ""
    ELSE IF lo = hi THEN Chr(b[lo])
    ELSE StringFrom(b, lo, (lo + hi) \div 2) \o StringFrom(b, (lo + hi) \div 2 + 1, hi)
StringOf(b) == Once(b, LAMBDA bytes : StringFrom(bytes, 1, Len(bytes)))

Sextet(alphabet, n) == SubSeq(alphabet, n + 1, n + 1)

\* the four characters of the group of (up to) three bytes starting at i
EncodeGroup(b, i, alphabet) ==
    IF i + 2 <= Len(b)
    THEN LET n == b[i] * 65536 + b[i + 1] * 256 + b[i + 2]
         IN Sextet(alphabet, n \div 262144) \o Sextet(alphabet, (n \div 4096) % 64)
            \o Sextet(alphabet, (n \div 64) % 64) \o Sextet(alphabet, n % 64)
    ELSE IF i + 1 = Len(b)
    THEN LET n == b[i] * 65536 + b[i + 1] * 256
         IN Sextet(alphabet, n \div 262144) \o Sextet(alphabet, (n \div 4096) % 64)
            \o Sextet(alphabet, (n \div 64) % 64) \o "="
    ELSE LET n == b[i] * 65536
         IN Sextet(alphabet, n \div 262144) \o Sextet(alphabet, (n \div 4096) % 64) \o "=="

\* Encoding.EncodeToString with '=' padding: the groups lo..hi, in order
RECURSIVE EncodeFrom(_, _, _, _)
EncodeFrom(b, lo, hi, alphabet) ==
    IF lo > hi THEN ""
    ELSE IF lo = hi THEN EncodeGroup(b, 3 * lo - 2, alphabet)
    ELSE EncodeFrom(b, lo, (lo + hi) \div 2, alphabet)
         \o EncodeFrom(b, (lo + hi) \div 2 + 1, hi, alphabet)

EncodeToString(b, alphabet) ==
    Once(b, LAMBDA bytes : EncodeFrom(bytes, 1, (Len(bytes) + 2) \div 3, alphabet))

\* the decoder skips '\r' and '\n'
RECURSIVE StripNewlines(_, _)
StripNewlines(s, i) ==
    Once({k \in i..Len(s) : SubSeq(s, k, k) \in {"\n", "\r"}}, LAMBDA hits :
    IF hits = {} THEN SubSeq(s, i, Len(s))
    ELSE Once(CHOOSE k \in hits : \A x \in hits : k <= x, LAMBDA first :
         SubSeq(s, i, first - 1) \o StripNewlines(s, first + 1)))

\* Encoding.decodeMap: the sextet of every character of the alphabet
decodeMapStd == [c \in {SubSeq(encodeStd, i, i) : i \in 1..64} |-> IndexOf(c, encodeStd) - 1]
decodeMapURL == [c \in {SubSeq(encodeURL, i, i) : i \in 1..64} |-> IndexOf(c, encodeURL) - 1]

\* the sextet of character c, -1 when it is not of the alphabet
decodeMap(alphabet, c) ==
    LET m == IF alphabet = encodeStd THEN decodeMapStd ELSE decodeMapURL
    IN IF c \in DOMAIN m THEN m[c] ELSE -1

\* one quantum of four characters starting at i; last tells whether it ends
\* the input (padding is legal only there)
DecodeQuantum(s, i, alphabet, last) ==
    LET c(k) == SubSeq(s, i + k, i + k)
        d(k) == decodeMap(alphabet, c(k))
        n == d(0) * 262144 + d(1) * 4096
    IN IF d(0) < 0 \/ d(1) < 0 THEN [ok |-> FALSE, bytes |-> <<>>]
       ELSE IF c(2) = "="
       THEN IF last /\ c(3) = "="
            THEN [ok |-> TRUE, bytes |-> <<n \div 65536>>]
            ELSE [ok |-> FALSE, bytes |-> <<>>]
       ELSE IF d(2) < 0 THEN [ok |-> FALSE, bytes |-> <<>>]
       ELSE IF c(3) = "="
       THEN IF last
            THEN [ok |-> TRUE, bytes |-> <<n \div 65536, ((n + d(2) * 64) \div 256) % 256>>]
            ELSE [ok |-> FALSE, bytes |-> <<>>]
       ELSE IF d(3) < 0 THEN [ok |-> FALSE, bytes |-> <<>>]
       ELSE LET m == n + d(2) * 64 + d(3)
            IN [ok |-> TRUE, bytes |-> <<m \div 65536, (m \div 256) % 256, m % 256>>]

\* the quanta lo..hi, in order; the first that fails makes the whole fail
RECURSIVE DecodeFrom(_, _, _, _)
DecodeFrom(s, lo, hi, alphabet) ==
    IF lo > hi THEN [ok |-> TRUE, bytes |-> <<>>]
    ELSE IF lo = hi THEN DecodeQuantum(s, 4 * lo - 3, alphabet, 4 * lo = Len(s))
    ELSE Once(DecodeFrom(s, lo, (lo + hi) \div 2, alphabet), LAMBDA q :
         IF ~q.ok THEN [ok |-> FALSE, bytes |-> <<>>]
         ELSE Once(DecodeFrom(s, (lo + hi) \div 2 + 1, hi, alphabet), LAMBDA r :
              IF r.ok THEN [ok |-> TRUE, bytes |-> q.bytes \o r.bytes]
              ELSE [ok |-> FALSE, bytes |-> <<>>]))

\* Encoding.DecodeString: an input that does not end a quantum is corrupt
DecodeString(s, alphabet) ==
    Once(s, LAMBDA str :
    Once(StripNewlines(str, 1), LAMBDA stripped :
    IF Len(stripped) % 4 # 0 THEN [ok |-> FALSE, bytes |-> <<>>]
    ELSE DecodeFrom(stripped, 1, Len(stripped) \div 4, alphabet)))

(***************************************************************************)
(* resources.go: generateRandomPassword, getOrGeneratePassword             *)
(***************************************************************************)
PasswordLength == 32

\* the value a wire tree holds at a sequence of keys (fieldpath GetValue on
\* a path of field segments)
RECURSIVE JAt(_, _, _)
JAt(j, parts, i) ==
    IF i > Len(parts) THEN [found |-> TRUE, val |-> j]
    ELSE IF j.kind # "map" THEN [found |-> FALSE, val |-> Null]
    ELSE IF parts[i] \notin DOMAIN j.val THEN [found |-> FALSE, val |-> Null]
    ELSE JAt(j.val[parts[i]], parts, i + 1)

GetValue(j, path) == Once(Split(path), LAMBDA parts : JAt(j, parts, 1))

\* rand.Read fills the buffer; the model draws it from NumSeeds buffers
NumSeeds == 2
RandomBytes(length) ==
    {[i \in 1..length |-> (seed * 37 + i * i * 11 + seed * i * 5) % 256] : seed \in 1..NumSeeds}

\* a generator that returns the whole encoding of the buffer
generateRandomPasswordUnsliced(length, bytes) ==
    Once(EncodeToString(bytes, encodeURL), LAMBDA encoded : encoded)

\* bytes is the buffer rand.Read filled, of the given length
generateRandomPassword(length, bytes) ==
    Once(EncodeToString(bytes, encodeURL), LAMBDA encoded : SubSeq(encoded, 1, length))

\* a lifecycle that ignores the observed state
alwaysGeneratePassword(obs, bytes) ==
    [password |-> generateRandomPassword(PasswordLength, bytes), generated |-> TRUE]

getOrGeneratePassword(obs, bytes) ==
    Once(IF "secret" \in DOMAIN obs /\ obs["secret"] # Nil
         THEN GetValue(obs["secret"], "data.password")
         ELSE [found |-> FALSE, val |-> Null], LAMBDA dataRaw :
    Once(IF dataRaw.found /\ IsString(dataRaw.val) /\ dataRaw.val.val # ""
         THEN DecodeString(dataRaw.val.val, encodeStd)
         ELSE [ok |-> FALSE, bytes |-> <<>>], LAMBDA decoded :
    IF decoded.ok
    THEN [password |-> StringOf(decoded.bytes), generated |-> FALSE]
    ELSE [password |-> generateRandomPassword(PasswordLength, bytes), generated |-> TRUE]))

(***************************************************************************)
(* resources.go: getSecretName, extractChartConfig,                        *)
(* getConnectionSecretConfig, injectPasswordIntoHelmValues                 *)
(***************************************************************************)
\* paved.GetString: the value must be there and be a string
GetString(j, path) ==
    Once(GetValue(j, path), LAMBDA g :
    [found |-> g.found /\ IsString(g.val), val |-> IF g.found /\ IsString(g.val) THEN g.val.val ELSE ""])

\* the string at key k of a wire mapping, "" when missing or not a string
StringField(j, k) == IF k \in DOMAIN j.val /\ IsString(j.val[k]) THEN j.val[k].val ELSE ""

\* a resolution that takes the namespace of the reference only together
\* with its name
getSecretNameTogether(comp, compositeNamespace) ==
    Once(GetString(comp, "metadata.name"), LAMBDA compositeName :
    Once(GetValue(comp, "spec.writeConnectionSecretToRef"), LAMBDA writeSecretRef :
    IF ~compositeName.found
    THEN [err |-> "failed to get composite name", name |-> "", namespace |-> ""]
    ELSE IF ~writeSecretRef.found \/ writeSecretRef.val = Null \/ writeSecretRef.val.kind # "map"
    THEN [err |-> NoErr, name |-> compositeName.val, namespace |-> compositeNamespace]
    ELSE IF StringField(writeSecretRef.val, "name") = ""
    THEN [err |-> NoErr, name |-> compositeName.val, namespace |-> compositeNamespace]
    ELSE [err |-> NoErr,
          name |-> StringField(writeSecretRef.val, "name"),
          namespace |-> IF StringField(writeSecretRef.val, "namespace") # ""
                        THEN StringField(writeSecretRef.val, "namespace") ELSE compositeNamespace]))

getSecretName(comp, compositeNamespace) ==
    Once(GetString(comp, "metadata.name"), LAMBDA compositeName :
    Once(GetValue(comp, "spec.writeConnectionSecretToRef"), LAMBDA writeSecretRef :
    IF ~compositeName.found
    THEN [err |-> "failed to get composite name", name |-> "", namespace |-> ""]
    ELSE IF ~writeSecretRef.found \/ writeSecretRef.val = Null \/ writeSecretRef.val.kind # "map"
    THEN [err |-> NoErr, name |-> compositeName.val, namespace |-> compositeNamespace]
    ELSE [err |-> NoErr,
          name |-> IF StringField(writeSecretRef.val, "name") # ""
                   THEN StringField(writeSecretRef.val, "name") ELSE compositeName.val,
          namespace |-> IF StringField(writeSecretRef.val, "namespace") # ""
                        THEN StringField(writeSecretRef.val, "namespace") ELSE compositeNamespace]))

\* a chart without a version is taken with the version ""
extractChartConfigDefaulting(h, mergedConfig) ==
    LET chart == MapGet(h, mergedConfig, "chart")
        field(k) == MapGet(h, MapGet(h, mergedConfig, "chart").val, k)
    IN IF ~IsMap(h, chart) THEN [err |-> "chart not found in merged config"]
       ELSE IF ~IsString(field("name")) THEN [err |-> "chart.name not found"]
       ELSE IF ~IsString(field("repository")) THEN [err |-> "chart.repository not found"]
       ELSE [err |-> NoErr, repo |-> field("repository").val, name |-> field("name").val,
             version |-> IF IsString(field("defaultVersion"))
                         THEN field("defaultVersion").val ELSE ""]

extractChartConfig(h, mergedConfig) ==
    LET chart == MapGet(h, mergedConfig, "chart")
        field(k) == MapGet(h, MapGet(h, mergedConfig, "chart").val, k)
    IN IF ~IsMap(h, chart) THEN [err |-> "chart not found in merged config"]
       ELSE IF ~IsString(field("name")) THEN [err |-> "chart.name not found"]
       ELSE IF ~IsString(field("repository")) THEN [err |-> "chart.repository not found"]
       ELSE IF ~IsString(field("defaultVersion")) THEN [err |-> "chart.defaultVersion not found"]
       ELSE [err |-> NoErr, repo |-> field("repository").val, name |-> field("name").val,
             version |-> field("defaultVersion").val]

\* the SecretFieldTemplate list: elements that are not mappings are skipped
RECURSIVE parseFields(_, _)
parseFields(fieldsRaw, i) ==
    IF i > Len(fieldsRaw) THEN <<>>
    ELSE IF fieldsRaw[i].kind # "map" THEN parseFields(fieldsRaw, i + 1)
    ELSE <<[Key |-> StringField(fieldsRaw[i], "key"), Value |-> StringField(fieldsRaw[i], "value")]>>
         \o parseFields(fieldsRaw, i + 1)

\* a configuration that stands for a template when none is declared
getConnectionSecretConfigLenient(h, mergedConfig) ==
    Once(Snapshot(h, MapGet(h, mergedConfig, "connectionSecret")), LAMBDA secretConfig :
    [err |-> NoErr,
     Fields |-> IF secretConfig.kind = "map" /\ "fields" \in DOMAIN secretConfig.val
                   /\ secretConfig.val["fields"].kind = "seq"
                THEN parseFields(secretConfig.val["fields"].val, 1) ELSE <<>>,
     PasswordPath |-> IF secretConfig.kind = "map"
                      THEN StringField(secretConfig, "passwordPath") ELSE "",
     ExistingSecretPath |-> IF secretConfig.kind = "map"
                            THEN StringField(secretConfig, "existingSecretPath") ELSE ""])

getConnectionSecretConfig(h, mergedConfig) ==
    Once(Snapshot(h, MapGet(h, mergedConfig, "connectionSecret")), LAMBDA secretConfig :
    IF secretConfig.kind # "map" THEN [err |-> "connectionSecret not found in merged config"]
    ELSE [err |-> NoErr,
          Fields |-> IF "fields" \in DOMAIN secretConfig.val /\ secretConfig.val["fields"].kind = "seq"
                     THEN parseFields(secretConfig.val["fields"].val, 1) ELSE <<>>,
          PasswordPath |-> StringField(secretConfig, "passwordPath"),
          ExistingSecretPath |-> StringField(secretConfig, "existingSecretPath")])

(***************************************************************************)
(* crossplane-runtime fieldpath, as resources.go uses it: Parse turns a    *)
(* path into segments, fields separated by '.', and in brackets an array   *)
(* index or a field name in which '.' has no meaning; Paved.SetValue walks *)
(* the segments and creates what is missing.                               *)
(***************************************************************************)
ErrNotAnObject == "is not an object"
ErrNotAnArray == "is not an array"
ErrCannotParse == "cannot parse path"
ErrIndexTooLarge == "index is greater than max allowed index"

DefaultMaxFieldPathIndex == 1024

\* the places of s, from pos on, that hold one of the characters cs
PlacesOf(s, pos, cs) == {k \in pos..Len(s) : SubSeq(s, k, k) \in cs}

Least(S) == CHOOSE k \in S : \A x \in S : k <= x

\* An unsigned number of 32 bits, exact: the integers of the model end at
\* 2147483647, so the number is written in two limbs, hi * 100000 + lo
Uint(hi, lo) == [hi |-> hi, lo |-> lo]

\* u > n, for an integer n of the model
Exceeds(u, n) == u.hi > n \div 100000 \/ (u.hi = n \div 100000 /\ u.lo > n % 100000)

\* the number as an integer of the model, for numbers that are one
IntOf(u) == u.hi * 100000 + u.lo

\* Field(s) of the library: a field segment, strings.Trim(s, "'\"")
FieldSegment(s) ==
    Once({k \in 1..Len(s) : SubSeq(s, k, k) \notin {"'", "\""}}, LAMBDA keep :
    [type |-> "field",
     field |-> IF keep = {} THEN ""
               ELSE SubSeq(s, Least(keep), CHOOSE k \in keep : \A x \in keep : x <= k),
     index |-> Uint(0, 0)])

\* the number the digits s[1..n] write
RECURSIVE DecimalValue(_, _)
DecimalValue(s, n) ==
    IF n = 0 THEN 0
    ELSE DecimalValue(s, n - 1) * 10 + (IndexOf(SubSeq(s, n, n), "0123456789") - 1)

\* strconv.ParseUint(s, 10, 32): decimal digits only, at most 4294967295
ParseUint(s) ==
    IF s = "" \/ PlacesOf(s, 1, {SubSeq("0123456789", d, d) : d \in 1..10}) # 1..Len(s)
    THEN [ok |-> FALSE, val |-> Uint(0, 0)]
    ELSE Once(PlacesOf(s, 1, {SubSeq("123456789", d, d) : d \in 1..9}), LAMBDA nonzero :
         Once(IF nonzero = {} THEN "" ELSE SubSeq(s, Least(nonzero), Len(s)), LAMBDA digits :
         IF Len(digits) > 10 THEN [ok |-> FALSE, val |-> Uint(0, 0)]
         ELSE Once(IF Len(digits) <= 5 THEN Uint(0, DecimalValue(digits, Len(digits)))
                   ELSE Uint(DecimalValue(digits, Len(digits) - 5),
                             DecimalValue(SubSeq(digits, Len(digits) - 4, Len(digits)), 5)),
                   LAMBDA u :
              IF u.hi > 42949 \/ (u.hi = 42949 /\ u.lo > 67295)
              THEN [ok |-> FALSE, val |-> Uint(0, 0)]
              ELSE [ok |-> TRUE, val |-> u])))

\* FieldOrIndex(s): an index when s is an unsigned number, a field otherwise
FieldOrIndex(s) ==
    Once(ParseUint(s), LAMBDA n :
    IF n.ok THEN [type |-> "index", field |-> "", index |-> n.val] ELSE FieldSegment(s))

\* l.emit(itemField): an empty value is not emitted
emitField(s, start, pos, segments) ==
    IF pos <= start THEN segments ELSE Append(segments, FieldSegment(SubSeq(s, start, pos - 1)))

\* the lexer states; pos is the place of the next character, from 1
RECURSIVE lexField(_, _, _), lexPeriod(_, _, _), lexLeftBracket(_, _, _), lexFieldOrIndex(_, _, _)
lexField(s, pos, segments) ==
    Once(PlacesOf(s, pos, {".", "[", "]"}), LAMBDA stops :
    IF stops = {} THEN [err |-> NoErr, segments |-> emitField(s, pos, Len(s) + 1, segments)]
    ELSE Once(Least(stops), LAMBDA k :
         IF SubSeq(s, k, k) = "]" THEN [err |-> ErrCannotParse, segments |-> <<>>]
         ELSE IF SubSeq(s, k, k) = "[" THEN lexLeftBracket(s, k, emitField(s, pos, k, segments))
         ELSE lexPeriod(s, k, emitField(s, pos, k, segments))))

\* a period may not begin or end the input, nor come before a period or a
\* left bracket
lexPeriod(s, pos, segments) ==
    IF pos = 1 \/ pos = Len(s) \/ SubSeq(s, pos + 1, pos + 1) \in {".", "["}
    THEN [err |-> ErrCannotParse, segments |-> <<>>]
    ELSE lexField(s, pos + 1, segments)

\* a right bracket must follow at some place
lexLeftBracket(s, pos, segments) ==
    IF PlacesOf(s, pos, {"]"}) = {} THEN [err |-> ErrCannotParse, segments |-> <<>>]
    ELSE lexFieldOrIndex(s, pos + 1, segments)

\* the text up to the next right bracket: not empty, without a left bracket
lexFieldOrIndex(s, pos, segments) ==
    Once(Least(PlacesOf(s, pos, {"]"})), LAMBDA rbi :
    IF rbi = pos \/ PlacesOf(SubSeq(s, 1, rbi - 1), pos, {"["}) # {}
    THEN [err |-> ErrCannotParse, segments |-> <<>>]
    ELSE lexField(s, rbi + 1, Append(segments, FieldOrIndex(SubSeq(s, pos, rbi - 1)))))

Parse(path) == Once(path, LAMBDA s : lexField(s, 1, <<>>))

\* make([]any, n)
NewSlice(h, n) ==
    [heap |-> Append(h, JSeq([i \in 1..n |-> Null])), addr |-> Len(h) + 1]

\* append(na, make([]any, n-len(na))...) on a slice without spare capacity,
\* as AsMap and deepCopy make them: a new slice of n elements
GrowSlice(h, na, n) ==
    [heap |-> Append(h, JSeq([i \in 1..n |-> IF i <= Len(h[na].val) THEN h[na].val[i] ELSE Null])),
     addr |-> Len(h) + 1]

\* what the slot of the current segment holds for the next segment: made
\* new when the slot is empty, lengthened when it is a slice too short for
\* the index that follows
prepareSlot(h, empty, v, next) ==
    IF empty
    THEN Once(IF next.type = "index" THEN NewSlice(h, IntOf(next.index) + 1) ELSE NewMap(h), LAMBDA n :
         [heap |-> n.heap, val |-> Ref(n.addr)])
    ELSE IF next.type = "index" /\ IsSlice(h, v) /\ IntOf(next.index) >= Len(h[v.val].val)
    THEN Once(GrowSlice(h, v.val, IntOf(next.index) + 1), LAMBDA n :
         [heap |-> n.heap, val |-> Ref(n.addr)])
    ELSE [heap |-> h, val |-> v]

\* prepareField(object, current, next)
prepareField(h, object, current, next) ==
    Once(prepareSlot(h, current.field \notin DOMAIN h[object].val,
                     MapGet(h, object, current.field), next), LAMBDA p :
    MapPut(p.heap, object, current.field, p.val))

\* prepareElement(array, current, next)
prepareElement(h, array, current, next) ==
    Once(prepareSlot(h, h[array].val[IntOf(current.index) + 1] = Null,
                     h[array].val[IntOf(current.index) + 1], next), LAMBDA p :
    SlicePut(p.heap, array, IntOf(current.index) + 1, p.val))

\* the loop of Paved.setValue over the segments
RECURSIVE pavedWalk(_, _, _, _, _)
pavedWalk(h, s, i, in, value) ==
    IF i > Len(s) THEN [heap |-> h, err |-> NoErr]
    ELSE IF s[i].type = "index"
    THEN IF ~IsSlice(h, in) THEN [heap |-> h, err |-> ErrNotAnArray]
         ELSE IF i = Len(s)
         THEN [heap |-> SlicePut(h, in.val, IntOf(s[i].index) + 1, value), err |-> NoErr]
         ELSE Once(prepareElement(h, in.val, s[i], s[i + 1]), LAMBDA next :
              pavedWalk(next, s, i + 1, next[in.val].val[IntOf(s[i].index) + 1], value))
    ELSE IF ~IsMap(h, in) THEN [heap |-> h, err |-> ErrNotAnObject]
         ELSE IF i = Len(s)
         THEN [heap |-> MapPut(h, in.val, s[i].field, value), err |-> NoErr]
         ELSE Once(prepareField(h, in.val, s[i], s[i + 1]), LAMBDA next :
              pavedWalk(next, s, i + 1, next[in.val].val[s[i].field], value))

\* validateSegments, then the walk
setValue(h, object, s, value) ==
    IF \E i \in 1..Len(s) : s[i].type = "index" /\ Exceeds(s[i].index, DefaultMaxFieldPathIndex)
    THEN [heap |-> h, err |-> ErrIndexTooLarge]
    ELSE pavedWalk(h, s, 1, Ref(object), value)

\* paved.SetValue(path, value)
SetValue(h, object, path, value) ==
    Once(Parse(path), LAMBDA segments :
    IF segments.err # NoErr THEN [heap |-> h, err |-> ErrCannotParse]
    ELSE setValue(h, object, segments.segments, value))

injectPasswordIntoHelmValues(h, helmValues, path, password) ==
    IF path = "" THEN [heap |-> h, err |-> NoErr]
    ELSE SetValue(h, helmValues, path, Str(password))

\* paved.SetValue(connectionSecret.ExistingSecretPath, secretName)
injectSecretName(h, helmValues, path, secretName) ==
    IF path = "" THEN [heap |-> h, err |-> NoErr]
    ELSE SetValue(h, helmValues, path, Str(secretName))

\* json.Marshal fails on a value that contains itself ("encountered a
\* cycle"); values is the tree as Snapshot gives it, cut where it comes
\* back to a map or slice it is inside of
RECURSIVE HasCycle(_)
HasCycle(j) ==
    IF j.kind = "cycle" THEN TRUE
    ELSE IF j.kind = "map" THEN \E k \in DOMAIN j.val : HasCycle(j.val[k])
    ELSE IF j.kind = "seq" THEN \E k \in 1..Len(j.val) : HasCycle(j.val[k])
    ELSE FALSE

(***************************************************************************)
(* builders.go and toFunctionResource: the descriptors as wire values      *)
(***************************************************************************)
\* a release that carries no values
HelmReleaseWithoutValues(name, namespace, repo, chartName, version, values) ==
    JMap([apiVersion |-> Str("helm.m.crossplane.io/v1beta1"),
          kind |-> Str("Release"),
          metadata |-> JMap([name |-> Str(name), namespace |-> Str(namespace)]),
          spec |-> JMap([forProvider |->
              JMap([chart |-> JMap([repository |-> Str(repo), name |-> Str(chartName),
                                    version |-> Str(version)]),
                    skipCreateNamespace |-> Bool(TRUE)])])])

\* HelmReleaseBuilder.Build: the values are marshalled only if there are any
HelmRelease(name, namespace, repo, chartName, version, values) ==
    LET chart == JMap([repository |-> Str(repo), name |-> Str(chartName), version |-> Str(version)])
    IN JMap([apiVersion |-> Str("helm.m.crossplane.io/v1beta1"),
             kind |-> Str("Release"),
             metadata |-> JMap([name |-> Str(name), namespace |-> Str(namespace)]),
             spec |-> JMap([forProvider |->
                 IF values.val = EmptyMap \/ HasCycle(values)
                 THEN JMap([chart |-> chart, skipCreateNamespace |-> Bool(TRUE)])
                 ELSE JMap([chart |-> chart, skipCreateNamespace |-> Bool(TRUE), values |-> values])])])

\* SecretBuilder.Build: Secret data is base64 on the wire
Secret(name, namespace, data, labels) ==
    LET meta == JMap([name |-> Str(name), namespace |-> Str(namespace),
                      labels |-> JMap([k \in DOMAIN labels |-> Str(labels[k])])])
        enc == JMap([k \in DOMAIN data |-> Str(EncodeToString(Bytes(data[k]), encodeStd))])
    IN IF data = EmptyMap
       THEN JMap([apiVersion |-> Str("v1"), kind |-> Str("Secret"), metadata |-> meta])
       ELSE JMap([apiVersion |-> Str("v1"), kind |-> Str("Secret"), metadata |-> meta, data |-> enc])

SecretLabels(instanceName) ==
    [x \in {"app.kubernetes.io/managed-by", "app.kubernetes.io/instance",
            "app.kubernetes.io/component"} |->
        IF x = "app.kubernetes.io/managed-by" THEN "crossplane"
        ELSE IF x = "app.kubernetes.io/instance" THEN instanceName
        ELSE "connection-secret"]

\* connDetails[field.Key] = []byte(value), in list order; ords[i] is the
\* iteration order of the variable map in the i-th substituteVariables call
RECURSIVE renderFields(_, _, _, _, _)
renderFields(fields, variables, ords, i, acc) ==
    IF i > Len(fields) THEN acc
    ELSE Once(substituteVariables(fields[i].Value, variables, ords[i]), LAMBDA value :
         Once([k \in (DOMAIN acc) \cup {fields[i].Key} |->
                  IF k = fields[i].Key THEN value ELSE acc[k]], LAMBDA next :
         renderFields(fields, variables, ords, i + 1, next)))

(***************************************************************************)
(* resources.go: generateResources.  bytes is what rand.Read returns,      *)
(* ords the iteration orders of the variable map, one per declared field.  *)
(***************************************************************************)
NoResources == [err |-> "", resources |-> <<>>, connDetails |-> <<>>, password |-> "",
                generated |-> FALSE, heap |-> <<>>, config |-> Nil, panicked |-> FALSE]

Failed(msg) == [NoResources EXCEPT !.err = msg]

\* return nil, nil, err: the memory stays as the call left it
FailedAt(h, msg) == [Failed(msg) EXCEPT !.heap = h]

Wrap(msg, err) == msg \o ": " \o err

\* steps 4 and 5: the two descriptors and the connection details
buildResources(h, instanceName, compositeNamespace, pw, chart, helmValues, connectionSecret, secretRef, ords) ==
    Once(HelmRelease(instanceName, compositeNamespace, chart.repo, chart.name,
                     chart.version, Snapshot(h, Ref(helmValues))), LAMBDA helmRelease :
    Once([x \in VariableNames |->
             IF x = "instanceName" THEN instanceName
             ELSE IF x = "namespace" THEN compositeNamespace
             ELSE pw.password], LAMBDA variables :
    Once(renderFields(connectionSecret.Fields, variables, ords, 1, <<>>), LAMBDA connDetails :
    [err |-> NoErr,
     resources |-> IF connectionSecret.err = NoErr
                   THEN [x \in {"helmrelease", "secret"} |->
                            IF x = "secret"
                            THEN Secret(secretRef.name, secretRef.namespace, connDetails,
                                        SecretLabels(instanceName))
                            ELSE helmRelease]
                   ELSE [x \in {"helmrelease"} |-> helmRelease],
     connDetails |-> IF connectionSecret.err = NoErr THEN connDetails ELSE <<>>,
     password |-> pw.password,
     generated |-> pw.generated,
     heap |-> h])))

\* step 3: the secret name and the two injections into the helm values
injectAndBuild(h, comp, instanceName, compositeNamespace, pw, chart, helmValues, connectionSecret, ords) ==
    IF connectionSecret.err # NoErr
    THEN buildResources(h, instanceName, compositeNamespace, pw, chart, helmValues,
                        [err |-> connectionSecret.err, Fields |-> <<>>],
                        [name |-> "", namespace |-> ""], ords)
    ELSE Once(getSecretName(comp, compositeNamespace), LAMBDA secretRef :
         IF secretRef.err # NoErr
         THEN FailedAt(h, Wrap("failed to get secret name", secretRef.err))
         ELSE Once(injectPasswordIntoHelmValues(h, helmValues, connectionSecret.PasswordPath,
                                                pw.password), LAMBDA withPassword :
              IF withPassword.err # NoErr
              THEN FailedAt(withPassword.heap, Wrap("failed to inject password", withPassword.err))
              ELSE Once(injectSecretName(withPassword.heap, helmValues,
                                         connectionSecret.ExistingSecretPath,
                                         secretRef.name), LAMBDA withName :
                   IF withName.err # NoErr
                   THEN FailedAt(withName.heap, Wrap("failed to inject secret name", withName.err))
                   ELSE buildResources(withName.heap, instanceName, compositeNamespace, pw,
                                       chart, helmValues, connectionSecret, secretRef, ords))))

generateResources(h, comp, obs, mergedConfig, bytes, ords) ==
    Once(GetString(comp, "metadata.name"), LAMBDA instanceName :
    Once(GetString(comp, "metadata.namespace"), LAMBDA compositeNamespace :
    IF ~instanceName.found THEN FailedAt(h, "failed to get instance name")
    ELSE IF ~compositeNamespace.found THEN FailedAt(h, "failed to get composite namespace")
    ELSE Once(getOrGeneratePassword(obs, bytes), LAMBDA pw :
         Once(extractChartConfig(h, mergedConfig), LAMBDA chart :
         Once(MapGet(h, mergedConfig, "helmValues"), LAMBDA helmValues :
         IF chart.err # NoErr THEN FailedAt(h, chart.err)
         ELSE IF ~IsMap(h, helmValues) THEN FailedAt(h, "helmValues not found in merged config")
         ELSE Once(getConnectionSecretConfig(h, mergedConfig), LAMBDA connectionSecret :
              injectAndBuild(h, comp, instanceName.val, compositeNamespace.val, pw, chart,
                             helmValues.val, connectionSecret, ords)))))))

(***************************************************************************)
(* merge.go: extractUserSpec, extractServiceConfig; manager.go: RunFunction *)
(***************************************************************************)
\* composite.Resource.AsMap() builds a fresh tree; the spec is a map of it
extractUserSpec(h, comp) ==
    Once(Alloc(h, comp), LAMBDA compositeMap :
    Once(MapGet(compositeMap.heap, compositeMap.val.val, "spec"), LAMBDA specRaw :
    IF "spec" \notin DOMAIN comp.val
    THEN [heap |-> compositeMap.heap, err |-> "failed to get spec from composite", spec |-> 0]
    ELSE IF ~IsMap(compositeMap.heap, specRaw)
    THEN [heap |-> compositeMap.heap, err |-> "spec is not a map[string]interface{}", spec |-> 0]
    ELSE [heap |-> compositeMap.heap, err |-> NoErr, spec |-> specRaw.val]))

RequiredFields == <<"chart", "defaultHelmValues", "mapping", "connectionSecret">>

\* a validation that does not ask for the connection template
MissingFieldOfThree(h, data) ==
    Once({i \in 1..3 : RequiredFields[i] \notin DOMAIN h[data].val}, LAMBDA missing :
    IF missing = {} THEN 0 ELSE CHOOSE i \in missing : \A k \in missing : i <= k)

\* the first required field the data map lacks, 0 when it has them all
MissingField(h, data) ==
    Once({i \in DOMAIN RequiredFields : RequiredFields[i] \notin DOMAIN h[data].val}, LAMBDA missing :
    IF missing = {} THEN 0 ELSE CHOOSE i \in missing : \A k \in missing : i <= k)

\* a process that keeps the first service configuration it extracted and
\* hands it to every later invocation
extractServiceConfigCached(h, in) ==
    Once({a \in DOMAIN h : h[a].kind = "map" /\ "defaultHelmValues" \in DOMAIN h[a].val}, LAMBDA kept :
    IF kept # {}
    THEN [heap |-> h, err |-> NoErr, data |-> CHOOSE a \in kept : \A b \in kept : a <= b]
    ELSE
    Once(Alloc(h, in), LAMBDA inputMap :
    Once(MapGet(inputMap.heap, inputMap.val.val, "data"), LAMBDA dataRaw :
    IF "data" \notin DOMAIN in.val
    THEN [heap |-> inputMap.heap, err |-> "failed to get data from input", data |-> 0]
    ELSE IF ~IsMap(inputMap.heap, dataRaw)
    THEN [heap |-> inputMap.heap, err |-> "data is not a map[string]interface{}", data |-> 0]
    ELSE Once(MissingField(inputMap.heap, dataRaw.val), LAMBDA missing :
         IF missing # 0
         THEN [heap |-> inputMap.heap,
               err |-> RequiredFields[missing] \o " not found in service config", data |-> 0]
         ELSE [heap |-> inputMap.heap, err |-> NoErr, data |-> dataRaw.val]))))

extractServiceConfig(h, in) ==
    Once(Alloc(h, in), LAMBDA inputMap :
    Once(MapGet(inputMap.heap, inputMap.val.val, "data"), LAMBDA dataRaw :
    IF "data" \notin DOMAIN in.val
    THEN [heap |-> inputMap.heap, err |-> "failed to get data from input", data |-> 0]
    ELSE IF ~IsMap(inputMap.heap, dataRaw)
    THEN [heap |-> inputMap.heap, err |-> "data is not a map[string]interface{}", data |-> 0]
    ELSE Once(MissingField(inputMap.heap, dataRaw.val), LAMBDA missing :
         IF missing # 0
         THEN [heap |-> inputMap.heap,
               err |-> RequiredFields[missing] \o " not found in service config", data |-> 0]
         ELSE [heap |-> inputMap.heap, err |-> NoErr, data |-> dataRaw.val])))

\* the mapping's iteration orders, read from the request
RequestOrders(in) ==
    LET m == GetValue(in, "data.mapping")
    IN IF in # Nil /\ m.found /\ m.val.kind = "map" THEN Perms(DOMAIN m.val.val) ELSE {<<>>}

\* the number of substituteVariables calls the request can lead to
RequestFields(in) ==
    LET f == GetValue(in, "data.connectionSecret.fields")
    IN IF in # Nil /\ f.found /\ f.val.kind = "seq"
       THEN Len(parseFields(f.val.val, 1)) ELSE 0

\* NewManager(log, ""): the Manager that serves requests itself
NoProxy == ""

\* what the endpoint of a proxying Manager does with a forwarded request:
\* dial is the error of grpc.NewClient, err the error of the remote call,
\* response what the remote function answered
RemoteOutcome(dial, err, response) == [dial |-> dial, err |-> err, response |-> response]

NoRemote == RemoteOutcome(NoErr, NoErr, NoResources)

\* the request goes to the endpoint and the answer comes back as it is
proxyFunction(proxyEndpoint, remote) ==
    IF remote.dial # NoErr
    THEN Failed(Wrap("failed to connect to proxy " \o proxyEndpoint, remote.dial))
    ELSE IF remote.err # NoErr
    THEN Failed(Wrap("failed to execute on proxy " \o proxyEndpoint, remote.err))
    ELSE remote.response

\* the handler of a Manager built with proxyEndpoint; remote is the outcome
\* of the forwarded call, ord the iteration order of the mapping table.
\* config is the service configuration as extractServiceConfig returned
\* it, Nil when the handler did not get there
RunFunction(proxyEndpoint, remote, comp, in, obs, ord, bytes, ords) ==
    IF proxyEndpoint # "" THEN proxyFunction(proxyEndpoint, remote)
    ELSE IF comp = Nil THEN Failed("composite is nil")
    ELSE Once(extractUserSpec(<<>>, comp), LAMBDA us :
         IF us.err # NoErr THEN Failed(Wrap("failed to extract user spec", us.err))
         ELSE IF in = Nil THEN Failed("input is nil")
         ELSE Once(extractServiceConfig(us.heap, in), LAMBDA sc :
              IF sc.err # NoErr THEN Failed(Wrap("failed to extract service config", sc.err))
              ELSE Once(Snapshot(sc.heap, Ref(sc.data)), LAMBDA config :
                   Once(mergeConfigs(sc.heap, sc.data, us.spec, ord), LAMBDA merged :
                   IF merged.err # NoErr
                   THEN [Failed(Wrap("failed to merge configs", merged.err))
                            EXCEPT !.config = config]
                   ELSE Once(generateResources(merged.heap, comp, obs, merged.result, bytes,
                                               ords), LAMBDA generated :
                        IF generated.err # NoErr
                        THEN [Failed(Wrap("failed to generate resources", generated.err))
                                 EXCEPT !.config = config]
                        ELSE [NoResources EXCEPT !.resources = generated.resources,
                                                 !.connDetails = generated.connDetails,
                                                 !.password = generated.password,
                                                 !.generated = generated.generated,
                                                 !.config = config])))))

\* a failed type assertion x.(T) without the comma-ok form: the goroutine
\* panics and the call returns nothing
Panicked(msg) == [NoResources EXCEPT !.err = msg, !.panicked = TRUE]

\* main.go's RunFunction: it logs chart.name and the size of the mapping
\* table through unchecked type assertions, and its response carries the
\* resources only
RunFunctionInMain(comp, in, obs, ord, bytes, ords) ==
    IF comp = Nil THEN Failed("composite is nil")
    ELSE Once(extractUserSpec(<<>>, comp), LAMBDA us :
         IF us.err # NoErr THEN Failed(Wrap("failed to extract user spec", us.err))
         ELSE IF in = Nil THEN Failed("input is nil")
         ELSE Once(extractServiceConfig(us.heap, in), LAMBDA sc :
              IF sc.err # NoErr THEN Failed(Wrap("failed to extract service config", sc.err))
              ELSE IF ~IsMap(sc.heap, MapGet(sc.heap, sc.data, "chart"))
              THEN Panicked("interface conversion: chart is not map[string]interface {}")
              ELSE IF ~IsMap(sc.heap, MapGet(sc.heap, sc.data, "mapping"))
              THEN Panicked("interface conversion: mapping is not map[string]interface {}")
              ELSE Once(mergeConfigs(sc.heap, sc.data, us.spec, ord), LAMBDA merged :
                   IF merged.err # NoErr THEN Failed(Wrap("failed to merge configs", merged.err))
                   ELSE Once(generateResources(merged.heap, comp, obs, merged.result, bytes,
                                               ords), LAMBDA generated :
                        IF generated.err # NoErr
                        THEN Failed(Wrap("failed to generate resources", generated.err))
                        ELSE [NoResources EXCEPT !.resources = generated.resources,
                                                 !.password = generated.password,
                                                 !.generated = generated.generated]))))

(***************************************************************************)
(* Specification SpecTree: the path accessor and the deep cloner applied   *)
(* to one tree m.                                                          *)
(***************************************************************************)
MaxSteps == 2

TreePool ==
    { JMap(EmptyMap),
      JMap([a |-> Num(1)]),
      JMap([a |-> JMap([b |-> Num(1)])]),
      JMap([spec |-> JMap([a |-> Num(2)]), a |-> Num(1)]),
      JMap([a |-> JMap([b |-> JMap([c |-> Str("x")])]),
            l |-> JSeq(<<JMap([x |-> Num(1)]), JSeq(<<Num(2)>>), Num(3)>>)]) }

PathPool == {"a", "a.b", "a.b.c", "spec.a", "spec", "", "l.x"}

ValuePool == {Num(7), Str("v"), JMap([k |-> Num(1)])}

KeyPool == {"a", "x"}

InitTree ==
    /\ \E j \in TreePool :
          LET r == Alloc(<<>>, j)
          IN /\ heap = r.heap
             /\ tree = r.val.val
    /\ copy = 0
    /\ pc = "init"
    /\ call = [fn |-> "none"]
    /\ steps = 0
    /\ serviceConfig = 0
    /\ userSpec = 0
    /\ NoRequest

\* setValueByPath(m, p, v) followed by getValueByPath(m, p)
SetThenGet ==
    /\ steps < MaxSteps
    /\ \E p \in PathPool, j \in ValuePool :
          LET a == Alloc(heap, j)
              s == setValueByPath(a.heap, tree, p, a.val)
              g == getValueByPath(s.heap, tree, p)
          IN /\ heap' = s.heap
             /\ call' = [fn |-> "setget", path |-> p, value |-> a.val,
                         setErr |-> s.err, getErr |-> g.err, getVal |-> g.val]
    /\ pc' = "setget"
    /\ steps' = steps + 1
    /\ UNCHANGED <<tree, copy, mergeVars, reqVars>>

\* c := deepCopy(m)
DeepCopyTree ==
    /\ copy = 0
    /\ LET r == deepCopy(heap, tree)
       IN /\ heap' = r.heap
          /\ copy' = r.addr
          /\ call' = [fn |-> "deepCopy",
                      src |-> Snapshot(heap, Ref(tree)),
                      dst |-> Snapshot(r.heap, Ref(r.addr)),
                      srcAfter |-> Snapshot(r.heap, Ref(tree))]
    /\ pc' = "deepCopy"
    /\ UNCHANGED <<tree, steps, mergeVars, reqVars>>

\* the two trees after the copy: "copy" is deepCopy(m), "orig" is m
Side(t) == IF t = "copy" THEN copy ELSE tree
Other(t) == IF t = "copy" THEN tree ELSE copy

\* setValueByPath on one of the two trees
WriteByPath ==
    /\ copy # 0
    /\ steps < MaxSteps
    /\ \E t \in {"copy", "orig"}, p \in PathPool, j \in ValuePool :
          LET a == Alloc(heap, j)
              s == setValueByPath(a.heap, Side(t), p, a.val)
          IN /\ heap' = s.heap
             /\ call' = [fn |-> "write", target |-> t, err |-> s.err,
                         changed |-> Snapshot(heap, Ref(Side(t))) # Snapshot(s.heap, Ref(Side(t))),
                         otherBefore |-> Snapshot(heap, Ref(Other(t))),
                         otherAfter |-> Snapshot(s.heap, Ref(Other(t)))]
    /\ pc' = "write"
    /\ steps' = steps + 1
    /\ UNCHANGED <<tree, copy, mergeVars, reqVars>>

\* m[k] = v or s[i] = v on any map or slice nested in one of the two trees
WriteNested ==
    /\ copy # 0
    /\ steps < MaxSteps
    /\ \E t \in {"copy", "orig"}, v \in {Num(7), Str("v")} :
       \E a \in Reach(heap, Ref(Side(t))) :
       \E h2 \in IF heap[a].kind = "map"
                 THEN {MapPut(heap, a, k, v) : k \in KeyPool}
                 ELSE {SlicePut(heap, a, i, v) : i \in 1..Len(heap[a].val)} :
          /\ heap' = h2
          /\ call' = [fn |-> "write", target |-> t, err |-> NoErr,
                      changed |-> Snapshot(heap, Ref(Side(t))) # Snapshot(h2, Ref(Side(t))),
                      otherBefore |-> Snapshot(heap, Ref(Other(t))),
                      otherAfter |-> Snapshot(h2, Ref(Other(t)))]
    /\ pc' = "write"
    /\ steps' = steps + 1
    /\ UNCHANGED <<tree, copy, mergeVars, reqVars>>

NextTree == SetThenGet \/ DeepCopyTree \/ WriteByPath \/ WriteNested

SpecTree == InitTree /\ [][NextTree]_vars

(***************************************************************************)
(* Properties of the path accessor and the deep cloner                     *)
(***************************************************************************)

\* C5: whenever setValueByPath(m, p, v) succeeds, getValueByPath(m, p)
\* succeeds and returns v, for every path p, those starting with "spec"
\* included.
SetGetRoundTrip ==
    (call.fn = "setget" /\ call.setErr = NoErr)
        => (call.getErr = NoErr /\ call.getVal = call.value)

\* C6: deepCopy(m) is structurally equal to m and leaves m as it was, the
\* copy and m share no map or slice, and a write to a map or slice of one
\* of the two trees leaves the other tree unchanged.
DeepCopyIndependent ==
    /\ call.fn = "deepCopy" => (call.dst = call.src /\ call.srcAfter = call.src)
    /\ copy # 0 => Reach(heap, Ref(copy)) \cap Reach(heap, Ref(tree)) = {}
    /\ call.fn = "write" => call.otherAfter = call.otherBefore

\* a write changed the copy of a tree that has nested maps or slices
DeepCopyWitness ==
    /\ call.fn = "write" /\ call.target = "copy" /\ call.changed
    /\ Cardinality(Reach(heap, Ref(tree))) > 1
    /\ Cardinality(Reach(heap, Ref(copy))) > 1

(***************************************************************************)
(* Specification SpecMerge: mergeConfigs applied to one service            *)
(* configuration and one user specification.                               *)
(***************************************************************************)
MaxEntries == 3

ChartOk == JMap([repository |-> Str("r"), name |-> Str("redis"), defaultVersion |-> Str("1.0")])

UrlTemplate == JMap([fields |-> JSeq(<<JMap([key |-> Str("url"),
                                             value |-> Str("redis://${instanceName}:6379")])>>)])

DefaultsPool ==
    { JMap(EmptyMap),
      JMap([auth |-> JMap([enabled |-> Bool(TRUE)]), resources |-> JMap([cpu |-> Str("100m")])]),
      JMap([master |-> Str("not-a-map")]) }

SourcePool == {"spec.size", "spec.size.cpu", "spec.x", "spec"}

DestPool == {Str("resources"), Str("resources.cpu"), Str("master.y"), Str("master"), Num(5)}

MappingPool ==
    UNION {[S -> DestPool] : S \in {T \in SUBSET SourcePool : Cardinality(T) <= MaxEntries}}

UserPool ==
    { JMap(EmptyMap),
      JMap([replicas |-> Num(3), size |-> JMap([cpu |-> Str("500m")]), x |-> Num(1)]),
      JMap([size |-> Str("big"), x |-> Num(1)]) }

ServiceConfigPool ==
    {JMap([chart |-> ChartOk, defaultHelmValues |-> d, mapping |-> JMap(m),
           connectionSecret |-> UrlTemplate]) : d \in DefaultsPool, m \in MappingPool}
    \cup {JMap([chart |-> ChartOk, defaultHelmValues |-> Str("none"),
                mapping |-> JMap(EmptyMap), connectionSecret |-> UrlTemplate]),
          JMap([chart |-> ChartOk, defaultHelmValues |-> JMap(EmptyMap),
                mapping |-> JSeq(<<>>), connectionSecret |-> UrlTemplate]),
          JMap([chart |-> ChartOk, defaultHelmValues |-> JMap(EmptyMap),
                mapping |-> JMap(EmptyMap)])}

InitMerge ==
    /\ \E c \in ServiceConfigPool, u \in UserPool :
          LET a == Alloc(<<>>, c)
              b == Alloc(a.heap, u)
          IN /\ heap = b.heap
             /\ serviceConfig = a.val.val
             /\ userSpec = b.val.val
    /\ tree = 0
    /\ copy = 0
    /\ pc = "init"
    /\ call = [fn |-> "none"]
    /\ steps = 0
    /\ NoRequest

\* the value found at each source path of the table, as getValueByPath
\* finds it in the user spec before the merge
Resolved(h, sc, us) ==
    IF ~IsMap(h, MapGet(h, sc, "mapping")) THEN EmptyMap
    ELSE [x \in DOMAIN h[MapGet(h, sc, "mapping").val].val |->
            LET g == getValueByPath(h, us, x)
            IN [err |-> g.err, val |-> Snapshot(h, g.val)]]

\* merged, err := mergeConfigs(serviceConfig, userSpec, log)
Merge ==
    /\ pc = "init"
    /\ \E ord \in MergeOrders(heap, serviceConfig) :
          LET r == mergeConfigs(heap, serviceConfig, userSpec, ord)
          IN /\ heap' = r.heap
             /\ call' = [fn |-> "merge", ord |-> ord, err |-> r.err, result |-> r.result,
                         configBefore |-> Snapshot(heap, Ref(serviceConfig)),
                         userBefore |-> Snapshot(heap, Ref(userSpec)),
                         resolved |-> Resolved(heap, serviceConfig, userSpec)]
    /\ pc' = "merged"
    /\ steps' = steps + 1
    /\ UNCHANGED <<treeVars, mergeVars, reqVars>>

NextMerge == Merge

SpecMerge == InitMerge /\ [][NextMerge]_vars

(***************************************************************************)
(* Properties of mergeConfigs                                              *)
(***************************************************************************)
Holds(j, path, v) == JAt(j, Split(path), 1) = [found |-> TRUE, val |-> v]

IsPrefix(p, q) == Len(p) <= Len(q) /\ SubSeq(q, 1, Len(p)) = p

\* one destination path equals, starts or extends the other
Related(d1, d2) == IsPrefix(Split(d1), Split(d2)) \/ IsPrefix(Split(d2), Split(d1))

\* the path passes through a key that holds a value that is not a mapping
Blocked(j, path) ==
    \E n \in 1..(Len(Split(path)) - 1) :
        LET at == JAt(j, SubSeq(Split(path), 1, n), 1)
        IN at.found /\ at.val.kind # "map"

Merged == call.fn = "merge"
WellTyped ==
    /\ call.configBefore.val.defaultHelmValues.kind = "map"
    /\ call.configBefore.val.mapping.kind = "map"
Defaults == call.configBefore.val.defaultHelmValues
MappingTable == call.configBefore.val.mapping.val
\* the entries whose destination is a string
Entries == {x \in DOMAIN MappingTable : MappingTable[x].kind = "str"}
Dest(x) == MappingTable[x].val
MergedValues == Snapshot(heap, MapGet(heap, call.result, "helmValues"))
PrefixFree == \A x \in Entries : \A y \in Entries \ {x} : ~Related(Dest(x), Dest(y))

MergeKeepsDefaults ==
    /\ call.err = NoErr
    /\ call.result # 0
    /\ MergedValues = Defaults
    /\ MapGet(heap, call.result, "chart") = MapGet(heap, serviceConfig, "chart")
    /\ MapGet(heap, call.result, "connectionSecret") = MapGet(heap, serviceConfig, "connectionSecret")
    /\ Snapshot(heap, Ref(serviceConfig)) = call.configBefore

\* C3 as stated: for every service config and the empty user spec,
\* mergeConfigs succeeds, helmValues equals defaultHelmValues, and chart
\* and connectionSecret are those of the service config.
DefaultsPreserved ==
    (Merged /\ call.userBefore = JMap(EmptyMap)) => MergeKeepsDefaults

\* C3 amended: the same for every service config whose defaultHelmValues
\* and mapping are mappings and whose mapping has no entry with a string
\* destination and the source path "spec" (which resolves to the root of
\* the user spec, even an empty one).
DefaultsPreservedWellTyped ==
    (/\ Merged
     /\ call.userBefore = JMap(EmptyMap)
     /\ WellTyped
     /\ "spec" \notin Entries) => MergeKeepsDefaults

\* an empty user spec merged with a table of three entries over defaults
\* that are not empty
DefaultsPreservedWitness ==
    /\ Merged /\ call.userBefore = JMap(EmptyMap) /\ WellTyped
    /\ "spec" \notin Entries
    /\ Cardinality(Entries) >= 2
    /\ Defaults # JMap(EmptyMap)
    /\ call.err = NoErr

\* C4: after a successful merge, for every entry whose source path resolves
\* to v in the user spec and whose destination is not written or prefixed
\* by another entry, the merged tree holds v at the destination.
OverrideApplied ==
    (Merged /\ call.err = NoErr) =>
        \A x \in Entries :
            (/\ call.resolved[x].err = NoErr
             /\ \A y \in Entries \ {x} : ~Related(Dest(x), Dest(y)))
                => Holds(MergedValues, Dest(x), call.resolved[x].val)

\* C7 as stated: an entry (whose source resolves) with a destination
\* passing through a key whose default value is not a mapping makes
\* mergeConfigs fail with the type-mismatch error and a nil result.
TypeMismatchFails ==
    (/\ Merged /\ WellTyped
     /\ \E x \in Entries : call.resolved[x].err = NoErr /\ Blocked(Defaults, Dest(x)))
        => (call.err = ErrSetHelmValue /\ call.result = 0)

\* C7 amended: the same, provided no destination path of the table is
\* equal to or a prefix of another entry's destination path.
TypeMismatchFailsPrefixFree ==
    (/\ Merged /\ WellTyped /\ PrefixFree
     /\ \E x \in Entries : call.resolved[x].err = NoErr /\ Blocked(Defaults, Dest(x)))
        => (call.err = ErrSetHelmValue /\ call.result = 0)

\* the merge failed on a blocked destination, in a table with other entries
TypeMismatchWitness ==
    /\ Merged /\ WellTyped /\ PrefixFree
    /\ Cardinality(Entries) >= 2
    /\ \E x \in Entries : call.resolved[x].err = NoErr /\ Blocked(Defaults, Dest(x))
    /\ call.err = ErrSetHelmValue /\ call.result = 0

(***************************************************************************)
(* Specification SpecSubst: substituteVariables applied to one template    *)
(* and one variable set.                                                   *)
(***************************************************************************)
TemplatePool ==
    { "redis://:${password}@${instanceName}:6379",
      "${password}",
      "$${password}",
      "${unknown}-${namespace}",
      "${instanceName}.${namespace}.${instanceName}",
      "plain" }

InstanceNamePool == {"my-redis", "db"}
NamespacePool == {"ns1", "prod"}
\* generated passwords are URL-safe base64; a password reused from an
\* observed Secret is whatever the Secret holds
PasswordPool == {"p1", "${namespace}", "{instanceName}"}


InitSubst ==
    /\ \E t \in TemplatePool, n \in InstanceNamePool, ns \in NamespacePool, p \in PasswordPool :
          call = [fn |-> "none", template |-> t,
                  variables |-> [instanceName |-> n, namespace |-> ns, password |-> p]]
    /\ heap = <<>>
    /\ tree = 0
    /\ copy = 0
    /\ pc = "init"
    /\ steps = 0
    /\ serviceConfig = 0
    /\ userSpec = 0
    /\ NoRequest

\* value := substituteVariables(field.Value, variables)
Substitute ==
    /\ pc = "init"
    /\ \E ord \in Perms(VariableNames) :
          call' = [fn |-> "substitute", template |-> call.template,
                   variables |-> call.variables, ord |-> ord,
                   out |-> substituteVariables(call.template, call.variables, ord)]
    /\ pc' = "substituted"
    /\ steps' = steps + 1
    /\ UNCHANGED <<heap, treeVars, mergeVars, reqVars>>

NextSubst == Substitute

SpecSubst == InitSubst /\ [][NextSubst]_vars

\* the template with every ${name} of a declared variable replaced by the
\* variable's value, in one pass from left to right
RECURSIVE RenderFrom(_, _, _)
RenderFrom(t, variables, i) ==
    LET at(k, x) == /\ k + Len(Placeholder(x)) - 1 <= Len(t)
                    /\ SubSeq(t, k, k + Len(Placeholder(x)) - 1) = Placeholder(x)
        hits == {k \in i..Len(t) : \E x \in DOMAIN variables : at(k, x)}
        first == CHOOSE k \in hits : \A x \in hits : k <= x
        name == CHOOSE x \in DOMAIN variables : at(first, x)
    IN IF hits = {} THEN SubSeq(t, i, Len(t))
       ELSE SubSeq(t, i, first - 1) \o variables[name]
            \o RenderFrom(t, variables, first + Len(Placeholder(name)))

Rendered(t, variables) == RenderFrom(t, variables, 1)

\* C8: substituteVariables replaces every ${name} of the template by the
\* value of the declared variable name and leaves every other placeholder
\* verbatim.
SubstituteReplacesDeclared ==
    call.fn = "substitute" => call.out = Rendered(call.template, call.variables)

\* C30: the rendered string does not depend on the order in which the
\* variables are applied: every order gives the string this call gave, so
\* no text that a value brought in is substituted again.
SubstituteOrderIndependent ==
    call.fn = "substitute"
        => \A ord \in Perms(VariableNames) :
              substituteVariables(call.template, call.variables, ord) = call.out

(***************************************************************************)
(* Specification SpecSecret: getOrGeneratePassword called repeatedly on    *)
(* one observed snapshot.                                                  *)
(***************************************************************************)
MaxCalls == 3

SecretWith(data) ==
    JMap([apiVersion |-> Str("v1"), kind |-> Str("Secret"),
          metadata |-> JMap([name |-> Str("my-redis"), namespace |-> Str("ns1")]),
          data |-> data])

ObservedPool ==
    { <<>>,
      [secret |-> Nil],
      [secret |-> JMap([apiVersion |-> Str("v1"), kind |-> Str("Secret")])],
      [secret |-> SecretWith(Str("opaque"))],
      [secret |-> SecretWith(JMap([url |-> Str("cmVkaXM6Ly9teS1yZWRpczo2Mzc5")]))],
      [secret |-> SecretWith(JMap([password |-> Num(7)]))],
      [secret |-> SecretWith(JMap([password |-> Str("")]))],
      [secret |-> SecretWith(JMap([password |-> Str("YWJjMTIz")]))],
      [secret |-> SecretWith(JMap([password |-> Str("cDE=")]))],
      [secret |-> SecretWith(JMap([password |-> Str("abc123")]))],
      [secret |-> SecretWith(JMap([password |-> Str("cDE")]))],
      [secret |-> SecretWith(JMap([password |-> Str("YQli")]))],
      [helmrelease |-> JMap([kind |-> Str("Release")])] }

InitSecret ==
    /\ observed \in ObservedPool
    /\ composite = Nil
    /\ input = Nil
    /\ call = [fn |-> "none", passwords |-> <<>>, generated |-> <<>>]
    /\ heap = <<>>
    /\ tree = 0
    /\ copy = 0
    /\ pc = "init"
    /\ steps = 0
    /\ serviceConfig = 0
    /\ userSpec = 0

\* password, err := getOrGeneratePassword(observedResources, instanceName, log)
ResolvePassword ==
    /\ steps < MaxCalls
    /\ \E bytes \in RandomBytes(PasswordLength) :
          LET r == getOrGeneratePassword(observed, bytes)
          IN call' = [fn |-> "password",
                      passwords |-> Append(call.passwords, r.password),
                      generated |-> Append(call.generated, r.generated)]
    /\ pc' = "resolved"
    /\ steps' = steps + 1
    /\ UNCHANGED <<heap, treeVars, mergeVars, reqVars>>

\* the lengths generateRandomPassword is called with
MaxPasswordLength == 34

\* generateRandomPassword(length)
GeneratePassword ==
    /\ steps < MaxCalls
    /\ \E length \in 1..MaxPasswordLength :
       \E bytes \in RandomBytes(length) :
          call' = [fn |-> "generateRandom", passwords |-> call.passwords,
                   generated |-> call.generated, length |-> length,
                   encoded |-> EncodeToString(bytes, encodeURL),
                   out |-> generateRandomPassword(length, bytes)]
    /\ pc' = "generated"
    /\ steps' = steps + 1
    /\ UNCHANGED <<heap, treeVars, mergeVars, reqVars>>

NextSecret == ResolvePassword \/ GeneratePassword

SpecSecret == InitSecret /\ [][NextSecret]_vars

\* the observed Secret holds a non-empty string at data.password
StoredPassword == GetValue(observed["secret"], "data.password")
HasStoredPassword ==
    /\ "secret" \in DOMAIN observed /\ observed["secret"] # Nil
    /\ StoredPassword.found
    /\ IsString(StoredPassword.val) /\ StoredPassword.val.val # ""

ReusesStored ==
    /\ DecodeString(StoredPassword.val.val, encodeStd).ok
    /\ \A i \in DOMAIN call.passwords :
          /\ ~call.generated[i]
          /\ call.passwords[i] = StringOf(DecodeString(StoredPassword.val.val, encodeStd).bytes)
    /\ \A i, k \in DOMAIN call.passwords : call.passwords[i] = call.passwords[k]

\* C2 as stated: with a non-empty value at data.password of the observed
\* secret, getOrGeneratePassword returns that value decoded and generates
\* nothing, so successive calls on the same snapshot agree.
ReuseObservedPassword ==
    (call.fn = "password" /\ HasStoredPassword) => ReusesStored

\* C2 amended: the same when the non-empty value is valid standard base64.
ReuseDecodablePassword ==
    (/\ call.fn = "password" /\ HasStoredPassword
     /\ DecodeString(StoredPassword.val.val, encodeStd).ok) => ReusesStored

\* two calls on a snapshot holding the encoding of "abc123" returned it
ReuseWitness ==
    /\ call.fn = "password" /\ HasStoredPassword
    /\ StoredPassword.val.val = "YWJjMTIz"
    /\ call.passwords = <<"abc123", "abc123">>

\* the observed state holds no secret, or the secret holds nothing at
\* data.password, or it holds the empty string there
NoUsableValue ==
    \/ "secret" \notin DOMAIN observed
    \/ observed["secret"] = Nil
    \/ ~StoredPassword.found
    \/ StoredPassword.val = Str("")

\* s has n characters, all of the URL-safe base64 alphabet
UrlSafeOfLength(s, n) ==
    /\ Len(s) = n
    /\ \A i \in 1..Len(s) : IndexOf(SubSeq(s, i, i), encodeURL) # 0

\* C27: without a usable observed value getOrGeneratePassword returns a
\* newly generated password of 32 characters; generateRandomPassword(n)
\* returns exactly n characters of the URL-safe base64 alphabet, none of
\* them the padding '=', and n never exceeds the length of the encoding
\* it is cut from.
GeneratesFullLength ==
    /\ (call.fn = "password" /\ NoUsableValue)
          => \A i \in DOMAIN call.passwords :
                call.generated[i] /\ UrlSafeOfLength(call.passwords[i], PasswordLength)
    /\ call.fn = "generateRandom"
          => /\ call.length <= Len(call.encoded)
             /\ UrlSafeOfLength(call.out, call.length)

\* a password of 31 characters cut from an encoding of 44 characters that
\* ends in two padding characters, after a call that found an empty value
\* and generated
GeneratesWitness ==
    /\ call.fn = "generateRandom"
    /\ call.length = 31
    /\ Len(call.out) = 31
    /\ SubSeq(call.encoded, 43, 44) = "=="
    /\ observed = [secret |-> SecretWith(JMap([password |-> Str("")]))]
    /\ call.generated = <<TRUE>>

(***************************************************************************)
(* Specification SpecRun: reconciliation passes of RunFunction.  A pass     *)
(* that succeeds leaves its descriptors as the observed resources of the    *)
(* next pass; a pass that fails leaves the observed resources as they were. *)
(***************************************************************************)
MaxPasses == 2

Meta(name, namespace) == JMap([name |-> Str(name), namespace |-> Str(namespace)])

Redis == JMap([metadata |-> Meta("my-redis", "ns1"), spec |-> JMap([replicas |-> Num(3)])])

RedisWithRef ==
    JMap([metadata |-> Meta("my-redis", "ns1"),
          spec |-> JMap([replicas |-> Num(3),
                         size |-> JMap([cpu |-> Str("500m")]),
                         secretName |-> Str("custom"),
                         writeConnectionSecretToRef |-> JMap([name |-> Str("redis-credentials")])])])

DbWithRef ==
    JMap([metadata |-> Meta("db", "prod"),
          spec |-> JMap([writeConnectionSecretToRef |->
                            JMap([name |-> Str(""), namespace |-> Str("other")])])])

AuthOn == JMap([auth |-> JMap([enabled |-> Bool(TRUE)])])

AuthWithSecret ==
    JMap([auth |-> JMap([enabled |-> Bool(TRUE), existingSecret |-> Str("default-secret")]),
          replicaCount |-> Num(1)])

Replicas == JMap([x \in {"spec.replicas"} |-> Str("replicaCount")])

ReplicasAndSize ==
    JMap([x \in {"spec.replicas", "spec.size"} |->
             IF x = "spec.replicas" THEN Str("replicaCount") ELSE Str("resources")])

SameDestination == JMap([x \in {"spec.replicas", "spec.size.cpu"} |-> Str("replicaCount")])

SecretNameMapped == JMap([x \in {"spec.secretName"} |-> Str("auth.existingSecret")])

\* the whole user spec goes to a, and its size goes below the size in a:
\* applied in this order the size comes to hold itself
SpecIntoItself ==
    JMap([x \in {"spec", "spec.size"} |-> IF x = "spec" THEN Str("a") ELSE Str("a.size.y")])

Field(key, value) == JMap([key |-> Str(key), value |-> Str(value)])

ReadmeUrl == "redis://default:${password}@${instanceName}-master.${namespace}.svc:6379"

\* the template of the README: the chart reads the password from the secret
ReadmeTemplate ==
    JMap([existingSecretPath |-> Str("auth.existingSecret"),
          fields |-> JSeq(<<Field("password", "${password}"), Field("url", ReadmeUrl)>>)])

\* the password goes to the chart values only
PasswordInValues ==
    JMap([passwordPath |-> Str("auth.password"),
          fields |-> JSeq(<<Field("url", "redis://:${password}@${instanceName}:6379")>>)])

BothAtOnePath ==
    JMap([passwordPath |-> Str("auth.existingSecret"),
          existingSecretPath |-> Str("auth.existingSecret"),
          fields |-> JSeq(<<Field("password", "${password}")>>)])

SecretUnderPassword ==
    JMap([passwordPath |-> Str("auth"),
          existingSecretPath |-> Str("auth.existingSecret"),
          fields |-> JSeq(<<Field("password", "${password}")>>)])

\* the password goes to the chart values and to the secret
PasswordStored ==
    JMap([passwordPath |-> Str("auth.password"),
          fields |-> JSeq(<<Field("password", "${password}")>>)])

RepeatedKey ==
    JMap([fields |-> JSeq(<<Field("url", "a"), Str("skipped"), Field("url", "${instanceName}")>>)])

ServiceConfig(chart, d, m, t) ==
    JMap([data |-> JMap([chart |-> chart, defaultHelmValues |-> d, mapping |-> m,
                         connectionSecret |-> t])])

Request(c, in, obs) == [composite |-> c, input |-> in, observed |-> obs]

StoredAbc123 == [secret |-> SecretWith(JMap([password |-> Str("YWJjMTIz")]))]

\* a secret that was not generated here: its password is "${namespace}"
StoredPlaceholder == [secret |-> SecretWith(JMap([password |-> Str("JHtuYW1lc3BhY2V9")]))]

RequestPool ==
    { Request(c, ServiceConfig(ChartOk, d, m, t), <<>>) :
        c \in {Redis, RedisWithRef, DbWithRef}, d \in {AuthOn, AuthWithSecret},
        m \in {Replicas, ReplicasAndSize, SameDestination, SecretNameMapped},
        t \in {UrlTemplate, ReadmeTemplate, PasswordInValues, BothAtOnePath,
               SecretUnderPassword, PasswordStored, RepeatedKey, Str("none")} }
    \cup { Request(Redis, ServiceConfig(ChartOk, AuthOn, Replicas, t), obs) :
        t \in {ReadmeTemplate, PasswordInValues, PasswordStored},
        obs \in {StoredAbc123, StoredPlaceholder} }
    \cup { Request(RedisWithRef, ServiceConfig(ChartOk, AuthOn, SpecIntoItself, t), <<>>) :
        t \in {ReadmeTemplate, UrlTemplate} }
    \cup { Request(Redis, ServiceConfig(JMap([name |-> Str("redis")]), AuthOn, Replicas,
                                        UrlTemplate), <<>>),
           Request(Redis, JMap([data |-> JMap([chart |-> ChartOk,
                                               defaultHelmValues |-> AuthOn,
                                               mapping |-> Replicas])]), <<>>),
           Request(Redis, JMap([data |-> Str("opaque")]), <<>>),
           Request(Redis, JMap([data |-> JMap([defaultHelmValues |-> AuthOn,
                                               mapping |-> Replicas,
                                               connectionSecret |-> UrlTemplate])]), <<>>),
           Request(Redis, JMap([data |-> JMap([chart |-> ChartOk,
                                               mapping |-> Replicas,
                                               connectionSecret |-> UrlTemplate])]), <<>>),
           Request(Redis, JMap([data |-> JMap([chart |-> ChartOk,
                                               defaultHelmValues |-> AuthOn,
                                               connectionSecret |-> UrlTemplate])]), <<>>),
           Request(Redis, JMap([data |-> JMap([mapping |-> Replicas])]), <<>>),
           Request(Redis, ServiceConfig(Null, AuthOn, Replicas, Null), <<>>),
           Request(Redis, ServiceConfig(ChartOk, Null, Null, Null), <<>>),
           Request(Redis, ServiceConfig(ChartOk, AuthOn, Replicas, Null), <<>>),
           Request(Redis, Nil, <<>>),
           Request(JMap([metadata |-> JMap([name |-> Str("my-redis")]),
                         spec |-> JMap(EmptyMap)]),
                   ServiceConfig(ChartOk, AuthOn, Replicas, UrlTemplate), <<>>),
           Request(JMap([metadata |-> Meta("my-redis", "ns1")]),
                   ServiceConfig(ChartOk, AuthOn, Replicas, UrlTemplate), <<>>),
           Request(Nil, ServiceConfig(ChartOk, AuthOn, Replicas, UrlTemplate), <<>>) }

InitRun ==
    /\ \E r \in RequestPool :
          /\ composite = r.composite
          /\ input = r.input
          /\ observed = r.observed
    /\ call = [fn |-> "none", passwords |-> <<>>]
    /\ heap = <<>>
    /\ tree = 0
    /\ copy = 0
    /\ pc = "init"
    /\ steps = 0
    /\ serviceConfig = 0
    /\ userSpec = 0

\* one pass: resp, err := m.RunFunction(ctx, req)
Reconcile ==
    /\ steps < MaxPasses
    /\ \E ord \in RequestOrders(input), bytes \in RandomBytes(PasswordLength),
          ords \in [1..RequestFields(input) -> Perms(VariableNames)] :
          \E r \in {RunFunction(NoProxy, NoRemote, composite, input, observed, ord, bytes, ords)} :
             /\ call' = [fn |-> "run", err |-> r.err, resources |-> r.resources,
                         connDetails |-> r.connDetails, password |-> r.password,
                         generated |-> r.generated, config |-> r.config,
                         observedBefore |-> observed,
                         observedFirst |-> IF call.fn = "none" THEN observed
                                           ELSE call.observedFirst,
                         passwords |-> IF r.err = NoErr
                                       THEN Append(call.passwords, r.password)
                                       ELSE call.passwords]
             /\ observed' = IF r.err = NoErr THEN r.resources ELSE observed
    /\ pc' = "ran"
    /\ steps' = steps + 1
    /\ UNCHANGED <<heap, treeVars, mergeVars, composite, input>>

NextRun == Reconcile

SpecRun == InitRun /\ [][NextRun]_vars

(***************************************************************************)
(* Properties of SpecRun                                                    *)
(***************************************************************************)
Succeeded == call.fn = "run" /\ call.err = NoErr

RunTemplate == GetValue(input, "data.connectionSecret").val
RunDefaults == GetValue(input, "data.defaultHelmValues").val
RunMapping == GetValue(input, "data.mapping").val.val
RunUser == GetValue(composite, "spec").val
HasTemplate == input # Nil /\ GetValue(input, "data.connectionSecret").found /\ RunTemplate.kind = "map"

\* the parameter tree of the deployment descriptor
RunValues ==
    LET v == GetValue(call.resources["helmrelease"], "spec.forProvider.values")
    IN IF v.found THEN v.val ELSE JMap(EmptyMap)

RunSecret == call.resources["secret"]

RunEntries == {x \in DOMAIN RunMapping : RunMapping[x].kind = "str"}
RunDest(x) == RunMapping[x].val
RunPrefixFree == \A x \in RunEntries : \A y \in RunEntries \ {x} : ~Related(RunDest(x), RunDest(y))

\* what the source path x names in the user spec
UserValue(x) == JAt(RunUser, Split(x), IF Split(x)[1] = "spec" THEN 2 ELSE 1)

\* the key sequences of every node of a wire value
RECURSIVE PathsOf(_)
PathsOf(j) ==
    IF j.kind # "map" THEN {<<>>}
    ELSE {<<>>} \cup UNION {{<<k>> \o q : q \in PathsOf(j.val[k])} : k \in DOMAIN j.val}

Untargeted(q) ==
    \A x \in RunEntries : ~IsPrefix(Split(RunDest(x)), q) /\ ~IsPrefix(q, Split(RunDest(x)))

ValuesCarryMappings ==
    \A x \in RunEntries : UserValue(x).found => Holds(RunValues, RunDest(x), UserValue(x).val)

ValuesKeepDefaults ==
    \A q \in PathsOf(RunDefaults) :
        (q # <<>> /\ Untargeted(q)) => JAt(RunValues, q, 1) = [found |-> TRUE, val |-> JAt(RunDefaults, q, 1).val]

DeclaredFields ==
    IF "fields" \in DOMAIN RunTemplate.val /\ RunTemplate.val["fields"].kind = "seq"
    THEN parseFields(RunTemplate.val["fields"].val, 1) ELSE <<>>

RunVariables ==
    [x \in VariableNames |->
        IF x = "instanceName" THEN GetString(composite, "metadata.name").val
        ELSE IF x = "namespace" THEN GetString(composite, "metadata.namespace").val
        ELSE call.password]

\* every declared key holds the rendering of its (last) declaration, in the
\* secret descriptor and in the connection details
SecretCarriesFields ==
    /\ "secret" \in DOMAIN call.resources
    /\ \A i \in DOMAIN DeclaredFields :
          (\A k \in DOMAIN DeclaredFields : k > i => DeclaredFields[k].Key # DeclaredFields[i].Key)
          => LET v == Rendered(DeclaredFields[i].Value, RunVariables)
                 stored == JAt(RunSecret, <<"data", DeclaredFields[i].Key>>, 1)
             IN /\ DeclaredFields[i].Key \in DOMAIN call.connDetails
                /\ call.connDetails[DeclaredFields[i].Key] = v
                /\ stored.found /\ IsString(stored.val)
                /\ DecodeString(stored.val.val, encodeStd) = [ok |-> TRUE, bytes |-> Bytes(v)]

\* C1: over passes that each observe what the previous pass produced, the
\* first of them with no observed state, the password is generated once:
\* for every service config with a connection template, every successful
\* pass uses the password of the first.
PasswordNeverRegenerated ==
    (call.fn = "run" /\ HasTemplate /\ call.observedFirst = <<>>)
    => \A i, k \in DOMAIN call.passwords : call.passwords[i] = call.passwords[k]

NoInjectionScenario ==
    /\ Succeeded /\ HasTemplate
    /\ call.observedBefore = <<>>
    /\ StringField(RunTemplate, "passwordPath") = ""
    /\ StringField(RunTemplate, "existingSecretPath") = ""

EndToEndHolds == ValuesCarryMappings /\ ValuesKeepDefaults /\ SecretCarriesFields

\* C9 as stated: a successful run with no observed state and a template
\* without injection paths puts every user-mapped value at its destination
\* and keeps every default no mapping targets in the deployment
\* descriptor's values, and the secret descriptor and the connection
\* details hold every declared key with its rendered template.
EndToEnd == NoInjectionScenario => EndToEndHolds

\* C9 amended: the same when no destination path of the mapping table
\* equals or is a prefix of another entry's destination path.
EndToEndDisjoint == (NoInjectionScenario /\ RunPrefixFree) => EndToEndHolds

\* the scenario of the spec: replicas 3 mapped to replicaCount over the
\* default auth.enabled, and the url template rendered for my-redis
EndToEndWitness ==
    /\ NoInjectionScenario /\ RunPrefixFree
    /\ Cardinality(RunEntries) = 2
    /\ Holds(RunValues, "replicaCount", Num(3))
    /\ Holds(RunValues, "auth.enabled", Bool(TRUE))
    /\ call.connDetails = [x \in {"url"} |-> "redis://my-redis:6379"]

DeclaresSecretPath == HasTemplate /\ StringField(RunTemplate, "existingSecretPath") # ""

\* C10: after a successful run whose template declares existingSecretPath,
\* the value at that path of the deployment descriptor's values is the
\* string that is the name of the secret descriptor.  It fails on a run
\* whose mapping stores the user spec into itself: the values then contain
\* themselves, the release is built without them, and the run succeeds.
SecretNameInjected ==
    (Succeeded /\ DeclaresSecretPath)
    => /\ "secret" \in DOMAIN call.resources
       /\ GetString(RunSecret, "metadata.name").found
       /\ Holds(RunValues, StringField(RunTemplate, "existingSecretPath"),
                Str(GetString(RunSecret, "metadata.name").val))

DeclaresPasswordPath == HasTemplate /\ StringField(RunTemplate, "passwordPath") # ""

\* the last declaration of its key
LastDeclared(i) ==
    \A k \in DOMAIN DeclaredFields : k > i => DeclaredFields[k].Key # DeclaredFields[i].Key

DeclaredKeys == {DeclaredFields[i].Key : i \in DOMAIN DeclaredFields}

\* every declared key of the connection details holds its template with
\* ${password} replaced by pw, ${instanceName} and ${namespace} by the
\* instance's name and namespace
ConnDetailsRenderedWith(pw) ==
    \A i \in DOMAIN DeclaredFields :
        LastDeclared(i)
        => /\ DeclaredFields[i].Key \in DOMAIN call.connDetails
           /\ call.connDetails[DeclaredFields[i].Key]
                 = Rendered(DeclaredFields[i].Value, [RunVariables EXCEPT !["password"] = pw])

\* C11: after a successful run whose template declares passwordPath, the
\* value at that path of the deployment descriptor's values is the resolved
\* password, and every rendered connection field holds that same value
\* where its template says ${password}.
PasswordInjected ==
    (Succeeded /\ DeclaresPasswordPath)
    => /\ Holds(RunValues, StringField(RunTemplate, "passwordPath"), Str(call.password))
       /\ ConnDetailsRenderedWith(call.password)

\* the data of the secret descriptor, decoded
SecretData ==
    IF "secret" \in DOMAIN call.resources /\ GetValue(RunSecret, "data").found
    THEN LET data == GetValue(RunSecret, "data").val.val
         IN [k \in DOMAIN data |-> StringOf(DecodeString(data[k].val, encodeStd).bytes)]
    ELSE <<>>

\* C12: after a successful run with a connection template, the connection
\* details and the data of the secret descriptor are the same map: its keys
\* are the declared field keys, and each holds the rendered template of the
\* last declaration of its key.
SecretAndDetailsAgree ==
    (Succeeded /\ HasTemplate)
    => /\ "secret" \in DOMAIN call.resources
       /\ SecretData = call.connDetails
       /\ DOMAIN call.connDetails = DeclaredKeys
       /\ ConnDetailsRenderedWith(call.password)

(***************************************************************************)
(* Specification SpecSynth: generateResources on one merged config, which  *)
(* is either handed over as it is or the result of mergeConfigs on a       *)
(* service configuration and the composite's spec.                         *)
(***************************************************************************)
NoNamespace == JMap([metadata |-> JMap([name |-> Str("my-redis")]), spec |-> JMap(EmptyMap)])

ChartPool ==
    { ChartOk,
      JMap([name |-> Str("redis"), defaultVersion |-> Str("1.0")]),
      JMap([repository |-> Str("r"), name |-> Num(1), defaultVersion |-> Str("1.0")]),
      JMap([repository |-> Str("r"), name |-> Str("redis")]),
      Str("redis") }

\* a merged config; an argument that is Nil leaves its key out
MergedConfig(c, v, t) ==
    LET at == [chart |-> c, helmValues |-> v, connectionSecret |-> t]
    IN JMap([k \in {x \in DOMAIN at : at[x] # Nil} |-> at[k]])

\* paths in the syntax of fieldpath: an index into a list and a quoted
\* field name with a period in it
IndexedPaths ==
    JMap([passwordPath |-> Str("users[0].password"),
          existingSecretPath |-> Str("auth['existing.secret']"),
          fields |-> JSeq(<<Field("password", "${password}")>>)])

\* a path fieldpath cannot parse
DoubledPeriod ==
    JMap([passwordPath |-> Str("auth..password"),
          fields |-> JSeq(<<Field("password", "${password}")>>)])

UsersList == JMap([users |-> JSeq(<<JMap([name |-> Str("u")])>>)])

MergedPool ==
    { MergedConfig(ChartOk, v, t) :
        v \in {AuthOn, AuthWithSecret, JMap([auth |-> Str("off")]), JMap(EmptyMap),
               Str("none"), Nil},
        t \in {ReadmeTemplate, PasswordInValues, SecretUnderPassword, BothAtOnePath,
               JMap(EmptyMap), Str("none"), Null, Nil} }
    \cup { MergedConfig(ChartOk, v, t) :
        v \in {AuthOn, UsersList, JMap([users |-> Str("none")])},
        t \in {IndexedPaths, DoubledPeriod} }
    \cup { MergedConfig(c, AuthOn, t) : c \in ChartPool \cup {Nil}, t \in {ReadmeTemplate, Nil} }

\* the configurations mergeConfigs is given; two of them make it fail
SynthConfigPool ==
    { JMap([chart |-> ChartOk, defaultHelmValues |-> d, mapping |-> m, connectionSecret |-> t]) :
        d \in {AuthOn, AuthWithSecret},
        m \in {Replicas, SecretNameMapped},
        t \in {ReadmeTemplate, PasswordInValues, SecretUnderPassword, Str("none")} }
    \cup { JMap([chart |-> ChartOk, defaultHelmValues |-> AuthOn,
                 mapping |-> JMap([x \in {"spec.replicas"} |-> Str("auth.enabled.count")]),
                 connectionSecret |-> ReadmeTemplate]),
           JMap([chart |-> ChartOk, defaultHelmValues |-> AuthOn, mapping |-> Str("none"),
                 connectionSecret |-> ReadmeTemplate]),
           JMap([chart |-> ChartOk, defaultHelmValues |-> AuthOn, mapping |-> SpecIntoItself,
                 connectionSecret |-> PasswordInValues]) }

InitSynth ==
    /\ \E comp \in {Redis, RedisWithRef, NoNamespace}, obs \in {<<>>, StoredAbc123} :
          /\ composite = comp
          /\ observed = obs
          /\ \/ \E mc \in MergedPool :
                   LET a == Alloc(<<>>, mc)
                   IN /\ heap = a.heap
                      /\ tree = a.val.val
                      /\ serviceConfig = 0
                      /\ userSpec = 0
                      /\ pc = "merged"
                      /\ call = [fn |-> "none", configBefore |-> Nil]
             \/ \E c \in SynthConfigPool :
                   LET a == Alloc(<<>>, c)
                       b == Alloc(a.heap, GetValue(comp, "spec").val)
                   IN /\ heap = b.heap
                      /\ tree = 0
                      /\ serviceConfig = a.val.val
                      /\ userSpec = b.val.val
                      /\ pc = "init"
                      /\ call = [fn |-> "none", configBefore |-> c]
    /\ input = Nil
    /\ copy = 0
    /\ steps = 0

\* mergedConfig, err := mergeConfigs(serviceConfig, userSpec, log)
SynthMerge ==
    /\ pc = "init"
    /\ \E ord \in MergeOrders(heap, serviceConfig) :
          \E r \in {mergeConfigs(heap, serviceConfig, userSpec, ord)} :
             /\ heap' = r.heap
             /\ tree' = r.result
             /\ pc' = IF r.err = NoErr THEN "merged" ELSE "mergeFailed"
             /\ call' = [fn |-> "merge", err |-> r.err, configBefore |-> call.configBefore]
    /\ steps' = steps + 1
    /\ UNCHANGED <<copy, mergeVars, reqVars>>

\* the number of substituteVariables calls the merged config can lead to
MergedFields(mc) ==
    LET f == GetValue(mc, "connectionSecret.fields")
    IN IF f.found /\ f.val.kind = "seq" THEN Len(parseFields(f.val.val, 1)) ELSE 0

\* resources, connDetails, err := generateResources(ctx, composite, observed, mergedConfig, log)
SynthGenerate ==
    /\ pc = "merged"
    /\ \E mc \in {Snapshot(heap, Ref(tree))} :
       \E bytes \in RandomBytes(PasswordLength),
          ords \in [1..MergedFields(mc) -> Perms(VariableNames)] :
          \E r \in {generateResources(heap, composite, observed, tree, bytes, ords)} :
             /\ heap' = r.heap
             /\ call' = [fn |-> "generate", err |-> r.err, resources |-> r.resources,
                         connDetails |-> r.connDetails, password |-> r.password,
                         mergedBefore |-> mc, configBefore |-> call.configBefore]
    /\ pc' = "generated"
    /\ steps' = steps + 1
    /\ UNCHANGED <<treeVars, mergeVars, reqVars>>

NextSynth == SynthMerge \/ SynthGenerate

SpecSynth == InitSynth /\ [][NextSynth]_vars

(***************************************************************************)
(* Properties of SpecSynth                                                 *)
(***************************************************************************)
Generated == call.fn = "generate"
GeneratedOk == Generated /\ call.err = NoErr

MergedTemplate == JAt(call.mergedBefore, <<"connectionSecret">>, 1)
TemplateDeclared == MergedTemplate.found /\ MergedTemplate.val.kind = "map"

\* the parameter tree of the deployment descriptor
SynthValues ==
    LET v == GetValue(call.resources["helmrelease"], "spec.forProvider.values")
    IN IF v.found THEN v.val ELSE JMap(EmptyMap)

\* C13: when the merged config holds no mapping under connectionSecret, a
\* successful generateResources returns the deployment descriptor alone, no
\* connection details, and the helm values exactly as the merged config
\* held them before the call.
NoTemplateOnlyRelease ==
    (GeneratedOk /\ ~TemplateDeclared)
    => /\ DOMAIN call.resources = {"helmrelease"}
       /\ call.connDetails = <<>>
       /\ SynthValues = call.mergedBefore.val.helmValues

\* a successful call without the connectionSecret key, on values that hold
\* a secret name of their own
NoTemplateWitness ==
    /\ GeneratedOk
    /\ "connectionSecret" \notin DOMAIN call.mergedBefore.val
    /\ Holds(SynthValues, "auth.existingSecret", Str("default-secret"))
    /\ DOMAIN call.resources = {"helmrelease"}

MergedValues0 == JAt(call.mergedBefore, <<"helmValues">>, 1)

\* chart.repository, chart.name or chart.defaultVersion is missing or is
\* not a string
ChartIncomplete ==
    \E k \in {"repository", "name", "defaultVersion"} :
        LET f == JAt(call.mergedBefore, <<"chart", k>>, 1)
        IN ~f.found \/ f.val.kind # "str"

ValuesMissing == ~MergedValues0.found \/ MergedValues0.val.kind # "map"

\* an injection path of the template runs through a value that is not a
\* mapping: one the values held before, or the password just injected
InjectionBlocked ==
    /\ TemplateDeclared /\ ~ValuesMissing
    /\ LET pp == StringField(MergedTemplate.val, "passwordPath")
           sp == StringField(MergedTemplate.val, "existingSecretPath")
       IN \/ pp # "" /\ Blocked(MergedValues0.val, pp)
          \/ sp # "" /\ Blocked(MergedValues0.val, sp)
          \/ pp # "" /\ sp # "" /\ Split(pp) # Split(sp) /\ IsPrefix(Split(pp), Split(sp))

\* C14: generateResources has no partial success: an incomplete chart,
\* missing helm values or a failing injection makes it return an error, and
\* whenever it returns an error it returns no descriptor and no connection
\* detail.
NoPartialSuccess ==
    Generated
    => /\ (ChartIncomplete \/ ValuesMissing \/ InjectionBlocked) => call.err # NoErr
       /\ call.err # NoErr => (call.resources = <<>> /\ call.connDetails = <<>>)

\* the secret name cannot be injected below the password that was injected
\* just before: the call fails after it has changed the helm values
NoPartialSuccessWitness ==
    /\ Generated /\ InjectionBlocked /\ ~ChartIncomplete
    /\ call.err = Wrap("failed to inject secret name", ErrNotAnObject)
    /\ Snapshot(heap, MapGet(heap, tree, "helmValues")) # MergedValues0.val
    /\ call.resources = <<>> /\ call.connDetails = <<>>

(***************************************************************************)
(* Properties of RunFunction's steps                                       *)
(***************************************************************************)
\* the request gets as far as extractServiceConfig with a data mapping
ReachesValidation ==
    /\ call.fn = "run"
    /\ composite # Nil /\ GetValue(composite, "spec").found /\ RunUser.kind = "map"
    /\ input # Nil /\ GetValue(input, "data").found /\ GetValue(input, "data").val.kind = "map"

ServiceData == GetValue(input, "data").val

MissingKeys == {RequiredFields[i] : i \in DOMAIN RequiredFields} \ DOMAIN ServiceData.val

\* C15: a service configuration that lacks one of chart, defaultHelmValues,
\* mapping, connectionSecret makes RunFunction return the error of
\* extractServiceConfig naming a missing key, before any merge or synthesis;
\* with all four keys present the extraction returns the configuration as
\* the input holds it.
ConfigValidated ==
    ReachesValidation
    => IF MissingKeys # {}
       THEN /\ \E k \in MissingKeys :
                  call.err = Wrap("failed to extract service config",
                                  k \o " not found in service config")
            /\ call.config = Nil
       ELSE call.config = ServiceData

\* the mapping table alone is missing
ConfigValidatedWitness ==
    /\ ReachesValidation
    /\ MissingKeys = {"mapping"}
    /\ call.err = "failed to extract service config: mapping not found in service config"
    /\ call.resources = <<>>

(***************************************************************************)
(* Specification SpecServe: one request served by the handler of           *)
(* manager.go or by the handler of main.go.                                *)
(***************************************************************************)
InitServe ==
    /\ \E r \in RequestPool :
          /\ composite = r.composite
          /\ input = r.input
          /\ observed = r.observed
    /\ call = [fn |-> "none"]
    /\ heap = <<>>
    /\ tree = 0
    /\ copy = 0
    /\ pc = "init"
    /\ steps = 0
    /\ serviceConfig = 0
    /\ userSpec = 0

\* what the server hands back for the handler's return
Served(handler, r) ==
    [fn |-> "run", handler |-> handler, err |-> r.err, panicked |-> r.panicked,
     resources |-> r.resources, connDetails |-> r.connDetails]

\* manager.go: resp, err := m.RunFunction(ctx, req)
Serve ==
    /\ call.fn = "none"
    /\ \E ord \in RequestOrders(input), bytes \in RandomBytes(PasswordLength),
          ords \in [1..RequestFields(input) -> Perms(VariableNames)] :
          call' = Served("manager.go", RunFunction(NoProxy, NoRemote, composite, input, observed, ord,
                                                    bytes, ords))
    /\ pc' = "ran"
    /\ steps' = steps + 1
    /\ UNCHANGED <<heap, treeVars, mergeVars, reqVars>>

\* main.go: resp, err := m.RunFunction(ctx, req)
ServeInMain ==
    /\ call.fn = "none"
    /\ \E ord \in RequestOrders(input), bytes \in RandomBytes(PasswordLength),
          ords \in [1..RequestFields(input) -> Perms(VariableNames)] :
          call' = Served("main.go", RunFunctionInMain(composite, input, observed, ord, bytes, ords))
    /\ pc' = "ran"
    /\ steps' = steps + 1
    /\ UNCHANGED <<heap, treeVars, mergeVars, reqVars>>

\* what the endpoint of the proxy mode may do with the forwarded request:
\* fail the call, let it end with the cancellation of the request's
\* context, answer with a release, answer with nothing
RemotePool ==
    { RemoteOutcome(NoErr, "connection refused", NoResources),
      RemoteOutcome(NoErr, "context canceled", NoResources),
      RemoteOutcome(NoErr, NoErr,
                    [NoResources EXCEPT !.resources =
                        [x \in {"helmrelease"} |->
                            HelmRelease("remote", "ns1", "r", "redis", "1.0", JMap(EmptyMap))]]),
      NoRemote }

ProxyEndpoint == "localhost:9444"

\* manager.go, NewManager(log, proxyEndpoint) with the --proxy flag set:
\* RunFunction up to the remote call.  grpc.NewClient fails and the handler
\* returns, or the request is sent and the handler waits for the endpoint
ProxyForward ==
    /\ call.fn = "none"
    /\ \/ call' = Served("manager.go, proxy",
                         RunFunction(ProxyEndpoint, RemoteOutcome("invalid target", NoErr, NoResources),
                                     composite, input, observed, <<>>, <<>>, <<>>))
          /\ pc' = "ran"
       \/ call' = [fn |-> "forwarded", handler |-> "manager.go, proxy"]
          /\ pc' = "waiting"
    /\ steps' = steps + 1
    /\ UNCHANGED <<heap, treeVars, mergeVars, reqVars>>

\* client.RunFunction returns: the handler wraps the error or hands the
\* answer back as it is, and closes its connection
ProxyReturn ==
    /\ call.fn = "forwarded"
    /\ \E remote \in RemotePool :
          call' = Served("manager.go, proxy",
                         RunFunction(ProxyEndpoint, remote, composite, input, observed,
                                     <<>>, <<>>, <<>>))
    /\ pc' = "ran"
    /\ steps' = steps + 1
    /\ UNCHANGED <<heap, treeVars, mergeVars, reqVars>>

NextServe == Serve \/ ServeInMain \/ ProxyForward \/ ProxyReturn

SpecServe == InitServe /\ [][NextServe]_vars

\* C16: RunFunction ends every request either with a complete response
\* (the deployment descriptor among the desired resources, with the
\* connection details) and no error, or with an error and no response;
\* it never aborts the call.
ResponseOrError ==
    call.fn = "run"
    => /\ ~call.panicked
       /\ call.err = NoErr => "helmrelease" \in DOMAIN call.resources
       /\ call.err # NoErr => (call.resources = <<>> /\ call.connDetails = <<>>)

(***************************************************************************)
(* The defaults under merge and synthesis (SpecSynth)                      *)
(***************************************************************************)
DefaultsNow == Snapshot(heap, MapGet(heap, serviceConfig, "defaultHelmValues"))

\* C18: once mergeConfigs has run on a service configuration, whether it
\* failed or succeeded, and after generateResources has run on its result
\* with its injections, the configuration's defaultHelmValues are what they
\* were before the merge.
DefaultsNeverMutated ==
    (serviceConfig # 0 /\ call.fn # "none")
    => DefaultsNow = call.configBefore.val.defaultHelmValues

\* the password was injected into auth, a mapping that comes from the
\* defaults, and the defaults hold no password
DefaultsWitness ==
    /\ serviceConfig # 0 /\ GeneratedOk
    /\ Holds(SynthValues, "auth.password", Str(call.password))
    /\ Holds(SynthValues, "replicaCount", Num(3))
    /\ DefaultsNow = AuthOn

(***************************************************************************)
(* Specification SpecConc: two invocations of RunFunction for different    *)
(* instances in one process.  The heap is the memory of the process; each  *)
(* invocation keeps its locals in call[i] and takes its steps (the calls   *)
(* RunFunction makes) interleaved with the other's.                        *)
(***************************************************************************)
Invocations == {1, 2}

FirstPool ==
    { Request(Redis, ServiceConfig(ChartOk, AuthOn, Replicas, PasswordStored), StoredAbc123),
      Request(RedisWithRef, ServiceConfig(ChartOk, AuthWithSecret, SecretNameMapped,
                                          PasswordInValues), <<>>) }

SecondPool ==
    { Request(DbWithRef, ServiceConfig(ChartOk, AuthOn, Replicas, PasswordStored), <<>>),
      Request(DbWithRef, ServiceConfig(ChartOk, AuthOn,
                                       JMap([x \in {"spec.writeConnectionSecretToRef"} |->
                                                Str("auth.enabled.ref")]),
                                       UrlTemplate), <<>>),
      Request(DbWithRef, JMap([data |-> JMap([chart |-> ChartOk])]), <<>>) }

\* the locals of an invocation that has not started
Started(r) ==
    [pc |-> "start", req |-> r, userSpec |-> 0, serviceConfig |-> 0, mergedConfig |-> 0,
     ord |-> <<>>, bytes |-> <<>>, ords |-> <<>>, err |-> NoErr, resources |-> <<>>,
     connDetails |-> <<>>, seen |-> <<>>]

InitConc ==
    /\ \E a \in FirstPool, b \in SecondPool :
          call = [i \in Invocations |-> IF i = 1 THEN Started(a) ELSE Started(b)]
    /\ heap = <<>>
    /\ tree = 0
    /\ copy = 0
    /\ pc = "init"
    /\ steps = 0
    /\ serviceConfig = 0
    /\ userSpec = 0
    /\ NoRequest

\* the trees an invocation holds, as they are in memory h
TreesOf(h, l) ==
    <<IF l.userSpec = 0 THEN Nil ELSE Snapshot(h, Ref(l.userSpec)),
      IF l.serviceConfig = 0 THEN Nil ELSE Snapshot(h, Ref(l.serviceConfig)),
      IF l.mergedConfig = 0 THEN Nil ELSE Snapshot(h, Ref(l.mergedConfig))>>

\* invocation i goes on with locals l in memory h
Continue(i, h, l) ==
    /\ heap' = h
    /\ call' = [call EXCEPT ![i] = [l EXCEPT !.seen = TreesOf(h, l)]]
    /\ steps' = steps + 1
    /\ UNCHANGED <<pc, treeVars, mergeVars, reqVars>>

\* return nil, err
Return(i, h, l, msg) == Continue(i, h, [l EXCEPT !.pc = "done", !.err = msg])

\* composite nil check and extractUserSpec(composite)
ConcExtractUserSpec(i) ==
    /\ call[i].pc = "start"
    /\ IF call[i].req.composite = Nil THEN Return(i, heap, call[i], "composite is nil")
       ELSE \E us \in {extractUserSpec(heap, call[i].req.composite)} :
               IF us.err # NoErr
               THEN Return(i, us.heap, call[i], Wrap("failed to extract user spec", us.err))
               ELSE Continue(i, us.heap, [call[i] EXCEPT !.pc = "spec", !.userSpec = us.spec])

\* input nil check and extractServiceConfig(input)
ConcExtractServiceConfig(i) ==
    /\ call[i].pc = "spec"
    /\ IF call[i].req.input = Nil THEN Return(i, heap, call[i], "input is nil")
       ELSE \E sc \in {extractServiceConfig(heap, call[i].req.input)} :
               IF sc.err # NoErr
               THEN Return(i, sc.heap, call[i], Wrap("failed to extract service config", sc.err))
               ELSE Continue(i, sc.heap,
                             [call[i] EXCEPT !.pc = "config", !.serviceConfig = sc.data])

\* mergeConfigs(serviceConfig, userSpec, log)
ConcMergeConfigs(i) ==
    /\ call[i].pc = "config"
    /\ \E ord \in MergeOrders(heap, call[i].serviceConfig) :
          \E m \in {mergeConfigs(heap, call[i].serviceConfig, call[i].userSpec, ord)} :
             IF m.err # NoErr
             THEN Return(i, m.heap, [call[i] EXCEPT !.ord = ord],
                         Wrap("failed to merge configs", m.err))
             ELSE Continue(i, m.heap,
                           [call[i] EXCEPT !.pc = "merged", !.ord = ord, !.mergedConfig = m.result])

\* generateResources(...) and the response
ConcGenerateResources(i) ==
    /\ call[i].pc = "merged"
    /\ \E mc \in {Snapshot(heap, Ref(call[i].mergedConfig))} :
       \E bytes \in RandomBytes(PasswordLength),
          ords \in [1..MergedFields(mc) -> Perms(VariableNames)] :
          \E r \in {generateResources(heap, call[i].req.composite, call[i].req.observed,
                                      call[i].mergedConfig, bytes, ords)} :
             IF r.err # NoErr
             THEN Return(i, r.heap, [call[i] EXCEPT !.bytes = bytes, !.ords = ords],
                         Wrap("failed to generate resources", r.err))
             ELSE Continue(i, r.heap,
                           [call[i] EXCEPT !.pc = "done", !.bytes = bytes, !.ords = ords,
                                           !.resources = r.resources,
                                           !.connDetails = r.connDetails])

NextConc ==
    \E i \in Invocations :
        \/ ConcExtractUserSpec(i)
        \/ ConcExtractServiceConfig(i)
        \/ ConcMergeConfigs(i)
        \/ ConcGenerateResources(i)

SpecConc == InitConc /\ [][NextConc]_vars

\* what the invocation returns when it runs alone with the same draws
Alone(l) ==
    RunFunction(NoProxy, NoRemote, l.req.composite, l.req.input, l.req.observed, l.ord, l.bytes,
                l.ords)

\* the orders the invocation iterated in are orders of its own request's
\* mapping table and fields
OwnDraws(l) ==
    /\ l.ord = <<>> \/ l.ord \in RequestOrders(l.req.input)
    /\ l.ords = <<>> \/ Len(l.ords) = RequestFields(l.req.input)

\* C17: with two invocations for different instances interleaved in any
\* way, each one that has returned has returned what it returns alone with
\* the same draws, and the trees an invocation holds are, after any step of
\* the other, what they were after its own last step.
InvocationsIsolated ==
    \A i \in Invocations :
        /\ call[i].pc = "done"
           => /\ OwnDraws(call[i])
              /\ call[i].err = Alone(call[i]).err
              /\ call[i].resources = Alone(call[i]).resources
              /\ call[i].connDetails = Alone(call[i]).connDetails
        /\ call[i].pc # "start" => TreesOf(heap, call[i]) = call[i].seen

\* both have returned their descriptors after taking their steps in turn
IsolatedWitness ==
    /\ \A i \in Invocations : call[i].pc = "done" /\ call[i].err = NoErr
    /\ call[1].userSpec < call[2].userSpec
    /\ call[2].userSpec < call[1].serviceConfig
    /\ call[1].serviceConfig < call[2].serviceConfig
    /\ call[2].serviceConfig < call[1].mergedConfig
    /\ call[1].mergedConfig < call[2].mergedConfig
    /\ call[1].connDetails # call[2].connDetails

(***************************************************************************)
(* Source paths of the mapping table (SpecMerge)                           *)
(***************************************************************************)
\* C19: mergeConfigs tolerates only absence: a table whose source paths
\* are all missing from the user spec merges to the defaults, while an
\* entry whose source path runs through a value of the user spec that is
\* not a mapping makes mergeConfigs fail.
OnlyAbsenceTolerated ==
    (Merged /\ WellTyped)
    => /\ (\A x \in Entries : call.resolved[x].err = ErrNotFound)
          => (call.err = NoErr /\ MergedValues = Defaults)
       /\ (\E x \in Entries : call.resolved[x].err = ErrExpectedMap) => call.err # NoErr

(***************************************************************************)
(* Specification SpecPath: getValueByPath and setValueByPath called on one *)
(* tree, one call at a time.                                               *)
(***************************************************************************)
\* err := setValueByPath(m, p, v)
SetByPath ==
    /\ steps < MaxSteps
    /\ \E p \in PathPool, j \in ValuePool :
          \E a \in {Alloc(heap, j)} :
          \E s \in {setValueByPath(a.heap, tree, p, a.val)} :
             /\ heap' = s.heap
             /\ call' = [fn |-> "set", path |-> p, err |-> s.err,
                         value |-> Snapshot(a.heap, a.val),
                         before |-> Snapshot(heap, Ref(tree)),
                         after |-> Snapshot(s.heap, Ref(tree))]
    /\ pc' = "set"
    /\ steps' = steps + 1
    /\ UNCHANGED <<tree, copy, mergeVars, reqVars>>

\* v, err := getValueByPath(m, p)
GetByPath ==
    /\ steps < MaxSteps
    /\ \E p \in PathPool :
          \E g \in {getValueByPath(heap, tree, p)} :
             call' = [fn |-> "get", path |-> p, err |-> g.err, val |-> g.val,
                      before |-> Snapshot(heap, Ref(tree))]
    /\ pc' = "get"
    /\ steps' = steps + 1
    /\ UNCHANGED <<heap, tree, copy, mergeVars, reqVars>>

\* getValueByPath(m, "spec." + p) and getValueByPath(m, p)
GetWithSentinel ==
    /\ steps < MaxSteps
    /\ \E p \in PathPool :
          \E g \in {getValueByPath(heap, tree, "spec." \o p)}, q \in {getValueByPath(heap, tree, p)} :
             call' = [fn |-> "getBoth", path |-> p, prefixed |-> g, plain |-> q,
                      before |-> Snapshot(heap, Ref(tree))]
    /\ pc' = "getBoth"
    /\ steps' = steps + 1
    /\ UNCHANGED <<heap, tree, copy, mergeVars, reqVars>>

NextPath == SetByPath \/ GetByPath \/ GetWithSentinel

SpecPath == InitTree /\ [][NextPath]_vars

\* C20: setValueByPath with the empty path returns an error and leaves the
\* tree as it was, and getValueByPath with the empty path returns the root
\* tree without error.
EmptyPathHandled ==
    /\ (call.fn = "set" /\ call.path = "") => (call.err # NoErr /\ call.after = call.before)
    /\ (call.fn = "get" /\ call.path = "") => (call.err = NoErr /\ call.val = Ref(tree))

(***************************************************************************)
(* Properties of getValueByPath (SpecPath)                                 *)
(***************************************************************************)
\* the segments getValueByPath looks up: a first segment "spec" is dropped
Effective(path) ==
    IF Split(path)[1] = "spec" THEN SubSeq(Split(path), 2, Len(Split(path))) ELSE Split(path)

\* the lookup of the segments parts in the tree as it was before the call:
\* not found exactly when a segment is missing from the mapping reached,
\* type mismatch exactly when the value reached before a segment is not a
\* mapping, the value at the segments otherwise, and the tree unchanged
GetFollows(parts) ==
    LET reached(n) == JAt(call.before, SubSeq(parts, 1, n - 1), 1)
        missing == \E n \in 1..Len(parts) :
                      /\ reached(n).found /\ reached(n).val.kind = "map"
                      /\ parts[n] \notin DOMAIN reached(n).val.val
        mismatch == \E n \in 1..Len(parts) : reached(n).found /\ reached(n).val.kind # "map"
    IN /\ call.err = ErrNotFound <=> missing
       /\ call.err = ErrExpectedMap <=> mismatch
       /\ (~missing /\ ~mismatch)
          => (call.err = NoErr /\ Snapshot(heap, call.val) = JAt(call.before, parts, 1).val)
       /\ Snapshot(heap, Ref(tree)) = call.before

\* C21 as stated: getValueByPath looks up every segment of the path, fails
\* with not-found exactly on a missing segment and with type-mismatch
\* exactly on a non-mapping before a further segment, returns the value at
\* the path otherwise, and leaves the tree unchanged.
GetWalksPath == call.fn = "get" => GetFollows(Split(call.path))

\* C21 amended: the same for the segments of the path after a first
\* segment "spec", which is not looked up.
GetWalksEffectivePath == call.fn = "get" => GetFollows(Effective(call.path))

\* the tree holds both spec.a and a: "spec.a" finds the a of the root
GetWalksWitness ==
    /\ call.fn = "get" /\ call.path = "spec.a"
    /\ Holds(call.before, "spec.a", Num(2))
    /\ call.err = NoErr /\ call.val = Num(1)

(***************************************************************************)
(* Properties of setValueByPath (SpecPath)                                 *)
(***************************************************************************)
\* the tree j with value v at the segments parts[i..], every other key as
\* it is in j and every missing mapping on the way new
RECURSIVE PutAt(_, _, _, _)
PutAt(j, parts, i, v) ==
    LET old == IF parts[i] \in DOMAIN j.val THEN j.val[parts[i]] ELSE JMap(EmptyMap)
        new == IF i = Len(parts) THEN v ELSE PutAt(old, parts, i + 1, v)
    IN JMap([k \in DOMAIN j.val \cup {parts[i]} |-> IF k = parts[i] THEN new ELSE j.val[k]])

\* C22: for a non-empty path setValueByPath fails, with the type-mismatch
\* error, exactly when an existing non-final segment holds a value that is
\* not a mapping (never because a segment is missing); otherwise the tree
\* afterwards is the tree before with the value at the final segment, new
\* mappings for the missing segments on the way, and every key outside the
\* path unchanged.
SetIsConstructive ==
    (call.fn = "set" /\ call.path # "")
    => IF Blocked(call.before, call.path)
       THEN call.err = ErrExpectedMap
       ELSE /\ call.err = NoErr
            /\ call.after = PutAt(call.before, Split(call.path), 1, call.value)

\* the mapping spec is created for spec.a in a tree that keeps its key a
SetConstructiveWitness ==
    /\ call.fn = "set" /\ call.path = "spec.a" /\ call.err = NoErr
    /\ ~JAt(call.before, <<"spec">>, 1).found
    /\ Holds(call.after, "spec.a", call.value)
    /\ Holds(call.after, "a", Num(1))

\* C29: a setValueByPath that returns the type-mismatch error leaves the
\* tree exactly as it was before the call: no mapping was created and
\* nothing was assigned.
SetAllOrNothing ==
    (call.fn = "set" /\ call.err = ErrExpectedMap) => call.after = call.before

\* a.b.c fails at the number under a.b, one mapping down from the root,
\* in a tree that an earlier set has written to
SetFailsWitness ==
    /\ call.fn = "set" /\ call.path = "a.b.c" /\ call.err = ErrExpectedMap
    /\ Holds(call.before, "a.b", Num(1))
    /\ JAt(call.before, <<"spec">>, 1).found
    /\ call.after = call.before

(***************************************************************************)
(* The leading segment "spec" (SpecPath)                                   *)
(***************************************************************************)
\* "spec." + p is looked up as the segments of p, each of them, and the
\* path "spec" alone gives the root
SentinelSkippedOnce ==
    /\ call.fn = "getBoth"
       => LET at == JAt(call.before, Split(call.path), 1)
          IN /\ call.prefixed.err = NoErr <=> at.found
             /\ at.found => Snapshot(heap, call.prefixed.val) = at.val
    /\ (call.fn = "get" /\ call.path = "spec") => (call.err = NoErr /\ call.val = Ref(tree))

\* C23 as stated: for every tree and path p, getValueByPath(tree,
\* "spec." + p) gives what getValueByPath(tree, p) gives; only a first
\* segment "spec" is skipped and the path "spec" returns the root.
SentinelTolerated ==
    /\ call.fn = "getBoth" => call.prefixed = call.plain
    /\ SentinelSkippedOnce

\* C23 amended: the same for every path p whose first segment is not
\* "spec".
SentinelToleratedOnPlainPaths ==
    /\ (call.fn = "getBoth" /\ Split(call.path)[1] # "spec") => call.prefixed = call.plain
    /\ SentinelSkippedOnce

\* "spec.a" and "a" both give the a of the root, in a tree that holds
\* another value at spec.a
SentinelWitness ==
    /\ call.fn = "getBoth" /\ call.path = "a"
    /\ Holds(call.before, "spec.a", Num(2))
    /\ call.prefixed = [err |-> NoErr, val |-> Num(1)]
    /\ call.plain = call.prefixed

(***************************************************************************)
(* Specification SpecOrder: mergeConfigs called twice on the same service  *)
(* configuration and user spec, each call iterating the mapping table in   *)
(* an order of its own.                                                    *)
(***************************************************************************)
MaxAliased == 2

OrderConfigPool ==
    {JMap([chart |-> ChartOk, defaultHelmValues |-> d, mapping |-> JMap(m),
           connectionSecret |-> UrlTemplate]) :
        d \in DefaultsPool,
        m \in UNION {[S -> DestPool] : S \in {T \in SUBSET SourcePool : Cardinality(T) <= MaxAliased}}}

InitOrder ==
    /\ \E c \in OrderConfigPool, u \in UserPool :
          LET a == Alloc(<<>>, c)
              b == Alloc(a.heap, u)
          IN /\ heap = b.heap
             /\ serviceConfig = a.val.val
             /\ userSpec = b.val.val
    /\ tree = 0
    /\ copy = 0
    /\ pc = "init"
    /\ call = [fn |-> "none"]
    /\ steps = 0
    /\ NoRequest

\* what a caller sees of a merge: the error, or the merged helm values
Outcome(r) ==
    [err |-> r.err,
     helmValues |-> IF r.err = NoErr THEN Snapshot(r.heap, MapGet(r.heap, r.result, "helmValues"))
                    ELSE Nil]

\* mergeConfigs(serviceConfig, userSpec, log), twice on equal arguments
MergeTwice ==
    /\ pc = "init"
    /\ \E o1 \in MergeOrders(heap, serviceConfig), o2 \in MergeOrders(heap, serviceConfig) :
          \E r1 \in {mergeConfigs(heap, serviceConfig, userSpec, o1)},
             r2 \in {mergeConfigs(heap, serviceConfig, userSpec, o2)} :
             /\ heap' = r1.heap
             /\ call' = [fn |-> "mergeTwice", orders |-> <<o1, o2>>,
                         first |-> Outcome(r1), second |-> Outcome(r2),
                         configBefore |-> Snapshot(heap, Ref(serviceConfig)),
                         userBefore |-> Snapshot(heap, Ref(userSpec))]
    /\ pc' = "merged"
    /\ steps' = steps + 1
    /\ UNCHANGED <<treeVars, mergeVars, reqVars>>

\* the heap in which the table of sc has no entry for the source path x
WithoutEntry(h, sc, x) ==
    Once(MapGet(h, sc, "mapping").val, LAMBDA m :
    [h EXCEPT ![m].val = [k \in DOMAIN h[m].val \ {x} |-> h[m].val[k]]])

\* mergeConfigs(serviceConfig, userSpec, log) on a table with an entry whose
\* destination is not a string, and on the same table without that entry,
\* the other entries iterated in the same order
MergeWithout ==
    /\ pc = "init"
    /\ \E ord \in MergeOrders(heap, serviceConfig) :
       \E x \in {k \in DOMAIN heap[MapGet(heap, serviceConfig, "mapping").val].val :
                    ~IsString(heap[MapGet(heap, serviceConfig, "mapping").val].val[k])} :
          \E r1 \in {mergeConfigs(heap, serviceConfig, userSpec, ord)},
             r2 \in {mergeConfigs(WithoutEntry(heap, serviceConfig, x), serviceConfig, userSpec,
                                  SelectSeq(ord, LAMBDA k : k # x))} :
             /\ heap' = r1.heap
             /\ call' = [fn |-> "mergeWithout", ord |-> ord, skipped |-> x,
                         with |-> Outcome(r1), without |-> Outcome(r2),
                         defaults |-> Snapshot(heap, MapGet(heap, serviceConfig, "defaultHelmValues")),
                         configBefore |-> Snapshot(heap, Ref(serviceConfig)),
                         userBefore |-> Snapshot(heap, Ref(userSpec))]
    /\ pc' = "merged"
    /\ steps' = steps + 1
    /\ UNCHANGED <<treeVars, mergeVars, reqVars>>

NextOrder == MergeTwice \/ MergeWithout

SpecOrder == InitOrder /\ [][NextOrder]_vars

\* C24: two merges of the same service configuration and user spec end
\* alike: the same error, or the same merged helm values, also when entries
\* of the table write the same destination or one below the other.
MergeDeterministic == call.fn = "mergeTwice" => call.first = call.second

\* C25: an entry of the table whose destination is not a string is ignored:
\* the merge ends as it ends on the table without that entry, with the same
\* error or the same merged helm values, so the entry makes nothing fail,
\* writes nothing, and leaves the other entries applied as they would be.
NonStringDestinationIgnored == call.fn = "mergeWithout" => call.with = call.without

\* a merge that succeeded on a table with a non-string destination and
\* another entry that wrote into the helm values
NonStringDestinationWitness ==
    /\ call.fn = "mergeWithout"
    /\ call.with.err = NoErr
    /\ call.with.helmValues # call.defaults
    /\ Len(call.ord) = 2
    /\ call.ord[1] = call.skipped

\* C28: after any merge, successful or failed, the user spec is equal to
\* the user spec before the call, and no map or slice of the merged tree
\* is a map or slice of the user spec.
UserSpecUntouched ==
    call.fn = "merge"
        => /\ Snapshot(heap, Ref(userSpec)) = call.userBefore
           /\ call.err = NoErr
                 => Reach(heap, Ref(call.result)) \cap Reach(heap, Ref(userSpec)) = {}

(***************************************************************************)
(* The target of the connection secret: generateResources on instances     *)
(* with every form of spec.writeConnectionSecretToRef.                      *)
(***************************************************************************)
RefPool ==
    { Null, Str("plain"), JSeq(<<>>), JMap(EmptyMap),
      JMap([name |-> Str("creds")]),
      JMap([namespace |-> Str("other")]),
      JMap([name |-> Str("creds"), namespace |-> Str("other")]),
      JMap([name |-> Str(""), namespace |-> Str("other")]),
      JMap([name |-> Str("creds"), namespace |-> Str("")]),
      JMap([name |-> Num(5), namespace |-> Null]) }

TargetPool ==
    { JMap([metadata |-> m, spec |-> JMap([replicas |-> Num(3)])]) :
        m \in {Meta("my-redis", "ns1"), Meta("db", "prod")} }
    \cup { JMap([metadata |-> m,
                 spec |-> JMap([replicas |-> Num(3), writeConnectionSecretToRef |-> r])]) :
        m \in {Meta("my-redis", "ns1"), Meta("db", "prod")}, r \in RefPool }

InitTarget ==
    /\ \E comp \in TargetPool, t \in {UrlTemplate, ReadmeTemplate, PasswordStored} :
          LET a == Alloc(<<>>, MergedConfig(ChartOk, AuthOn, t))
          IN /\ composite = comp
             /\ heap = a.heap
             /\ tree = a.val.val
    /\ observed = <<>>
    /\ serviceConfig = 0
    /\ userSpec = 0
    /\ pc = "merged"
    /\ call = [fn |-> "none", configBefore |-> Nil]
    /\ input = Nil
    /\ copy = 0
    /\ steps = 0

NextTarget == SynthGenerate

SpecTarget == InitTarget /\ [][NextTarget]_vars

\* the name and the namespace of the instance
InstanceName == GetValue(composite, "metadata.name").val.val
InstanceNamespace == GetValue(composite, "metadata.namespace").val.val

\* the reference of the instance, when it is a mapping
SecretRef ==
    LET r == JAt(composite, <<"spec", "writeConnectionSecretToRef">>, 1)
    IN IF r.found /\ r.val.kind = "map" THEN r.val.val ELSE EmptyMap

\* the string the reference gives for the key k, when it is a non-empty
\* string, and the default d otherwise
RefOr(k, d) ==
    IF k \in DOMAIN SecretRef /\ SecretRef[k].kind = "str" /\ SecretRef[k].val # ""
    THEN SecretRef[k].val ELSE d

\* C26: in a successful generateResources with a connection template the
\* secret is named by a non-empty string name of
\* spec.writeConnectionSecretToRef and else after the instance, and lies in
\* the namespace given by a non-empty string namespace of the reference and
\* else in the instance namespace, each independently of the other; the
\* deployment descriptor is named after the instance in the instance
\* namespace and the instance label of the secret is the instance name.
SecretTargetResolved ==
    (call.fn = "generate" /\ call.err = NoErr)
        => /\ GetValue(call.resources["helmrelease"], "metadata.name").val = Str(InstanceName)
           /\ GetValue(call.resources["helmrelease"], "metadata.namespace").val
                 = Str(InstanceNamespace)
           /\ "secret" \in DOMAIN call.resources
           /\ GetValue(call.resources["secret"], "metadata.name").val
                 = Str(RefOr("name", InstanceName))
           /\ GetValue(call.resources["secret"], "metadata.namespace").val
                 = Str(RefOr("namespace", InstanceNamespace))
           /\ JAt(call.resources["secret"],
                  <<"metadata", "labels", "app.kubernetes.io/instance">>, 1).val
                 = Str(InstanceName)

\* a secret that takes its namespace from the reference and its name from
\* the instance
SecretTargetWitness ==
    /\ call.fn = "generate"
    /\ call.err = NoErr
    /\ SecretRef = [name |-> Str(""), namespace |-> Str("other")]
    /\ GetValue(call.resources["secret"], "metadata.name").val = Str(InstanceName)
    /\ GetValue(call.resources["secret"], "metadata.namespace").val = Str("other")
====
